---------------------------- MODULE Spec2Model ----------------------------
(***************************************************************************)
(* HUSTGo route finder: the A* search of src/src/AStar.py over the graph   *)
(* that src/src/load_map_bachkhoa.py builds from an OSM multigraph.        *)
(*                                                                         *)
(* Numbers.  Every length, weight and cost is an integer number of the     *)
(* tolerance of the stale-entry test of astar (AStar.py:28, 1e-9 m), so    *)
(* that test reads g > g_score + eps with eps = 1.  The end-to-end         *)
(* scenario of the specification is given in whole metres; there the same  *)
(* test on integers is g > g_score + 1e-9, that is eps = 0.                *)
(* Node coordinates lie on one meridian (lon = 0) at whole grid steps of   *)
(* latitude, where the haversine distance is exactly the arc length        *)
(* EARTH_R * |lat2 - lat1|.                                                *)
(***************************************************************************)
EXTENDS Integers, Sequences, FiniteSets, TLC

----------------------------------------------------------------------------
(* Bounds of the model *)

\* recorded edge lengths of the generated multigraphs are 1..MaxLen
MaxLen == 2
\* node latitudes of the generated node tables are 0..MaxLat grid steps
MaxLat == 1
\* an identifier that is in no node table
UnknownId == 5
\* the raw segments given to the merging and wording of build_directions
\* are those of paths of 1..MaxHops hops
MaxHops == 3
\* the binary floating-point numbers of _delta_bearing and of the sums of
\* build_directions have a significand of Significand bits (a double has
\* 53): bearings are counted in units of 2^(8 - Significand) degrees, the
\* spacing of the numbers below 256 degrees
Significand == 7
\* the callers of geocode_address pass 0..MaxRetries for retries
MaxRetries == 4

----------------------------------------------------------------------------
(* State *)

VARIABLES
  G,          \* the OSM multigraph (Graph.pkl): its edges with their data
  nodes,      \* the node table (nodes.pkl): id -> Point
  adj,        \* the adjacency mapping (adj.pkl): id -> list of (neighbor, weight)
  eps,        \* the tolerance 1e-9 m of AStar.py:28 in the weight unit of the graph
  asks,       \* per call: the (start, goal) pairs its caller may ask for
  pc,         \* per call: where it is
  coords,     \* per call: the latitudes start_coord[0], goal_coord[0] that the
              \* caller resolved to start and goal (app_1.py:336-337), if any
  start,      \* per call: the arguments of astar
  goal,
  g_score,    \* per call: the locals of astar
  open_heap,
  came_from,
  closed,
  path,       \* per call: the returned pair (path, cost)
  cost,
  trace,      \* per call: the loop iterations so far (history)
  meta,       \* per call: the G that build_directions was given (app_1.py:367-369)
  segs,       \* per call: the raw segments of build_directions (line 216)
  merged,     \* per call: its merged segments (line 230)
  steps,      \* per call: the result of build_directions on the returned path
  brgs,       \* the arguments b1, b2 of a call of _delta_bearing
  delta,      \* its result d
  geo,        \* a call of geocode_address: its locals, requests and result
  dl          \* a call of build_and_save_graph: its locals and the pickle files

----------------------------------------------------------------------------
(* Program constants *)

\* calcDist.py:5 EARTH_R, here the arc length of one grid step of latitude
EARTH_R == 3
\* float('inf') of AStar.py:28,47,48,54
Inf == 1000000
\* None: the parent of the start entry (AStar.py:20), a missing 'length';
\* a value that is no identifier and no length
None == 0 - Inf

NodeIds == {1, 2, 3, 4}
Calls == {1, 2}

Abs(x) == IF x < 0 THEN 0 - x ELSE x

----------------------------------------------------------------------------
(* point.py, calcDist.py *)

Point(i, la, lo) == [id |-> i, lat |-> la, lon |-> lo]

to_tuple(p) == <<p.lat, p.lon>>

\* haversine_m on one meridian: a = sin(dphi/2)^2, c = |dphi|, EARTH_R * c.
\* Off the meridian the model has no points (Init draws lon = 0).
haversine_m(lat1, lon1, lat2, lon2) == EARTH_R * Abs(lat2 - lat1)

calcDist(p1, p2) == haversine_m(p1[1], p1[2], p2[1], p2[2])

----------------------------------------------------------------------------
(* Python dict helpers *)

DictGet(d, k, default) == IF k \in DOMAIN d THEN d[k] ELSE default

DictSet(d, k, v) == [x \in (DOMAIN d) \cup {k} |-> IF x = k THEN v ELSE d[x]]

EmptyDict == [x \in {} |-> 0]

\* inf + w = inf in floating point
FAdd(a, b) == IF a >= Inf \/ b >= Inf THEN Inf ELSE a + b


----------------------------------------------------------------------------
(* The OSM multigraph G and the graph files built from it                  *)
(* (load_map_bachkhoa.py:158-176)                                          *)

\* the node pairs an edge of a generated multigraph may join, in the order
\* in which G.edges yields them
Slots == << <<1, 2>>, <<1, 3>>, <<2, 3>>, <<3, 4>> >>

\* the street name carried by the edge of each slot ("" = unnamed)
SlotName == << "Tran Dai Nghia", "", "Tran Dai Nghia", "Ta Quang Buu" >>

\* an edge of G: data['length'] is None, or a recorded length
Absent == None - 1
SlotChoices == {Absent, None} \cup (1 .. MaxLen)

Edge(uu, vv, len, nm) == [u |-> uu, v |-> vv, length |-> len, name |-> nm]

RECURSIVE EdgesOf(_, _)
EdgesOf(choice, i) ==
  IF i > Len(Slots) THEN << >>
  ELSE LET rest == EdgesOf(choice, i + 1)
       IN  IF choice[i] = Absent THEN rest
           ELSE << Edge(Slots[i][1], Slots[i][2], choice[i], SlotName[i]) >> \o rest

\* the end-to-end scenario of the specification, in metres:
\* A->B (100), A->D (1000), B->C (150), C->D (50) with A..D = 1..4
ScenarioG ==
  << Edge(1, 2, 100, "Tran Dai Nghia"), Edge(1, 4, 1000, ""),
     Edge(2, 3, 150, "Tran Dai Nghia"), Edge(3, 4, 50, "Ta Quang Buu") >>

\* multigraphs with a self-loop, parallel edges and a cycle; with recorded
\* lengths of zero and below and a cycle of fallback weights; with a
\* detour that outdates a frontier entry by more than the tolerance; and
\* with parallel edges of which one has no recorded length
SpecialGraphs ==
  { << Edge(1, 1, 1, ""), Edge(1, 3, 2, "Tran Dai Nghia"),
       Edge(1, 3, 1, "Le Thanh Nghi"), Edge(3, 1, 1, "Le Thanh Nghi"),
       Edge(3, 4, 1, "Ta Quang Buu") >>,
    << Edge(1, 2, 0, "Tran Dai Nghia"), Edge(2, 3, None, ""),
       Edge(2, 4, 2, "Tran Dai Nghia"), Edge(3, 2, None, ""),
       Edge(3, 4, 0 - 1, "Ta Quang Buu") >>,
    << Edge(1, 2, 1, "Tran Dai Nghia"), Edge(1, 3, 4, ""),
       Edge(2, 3, 1, "Tran Dai Nghia"), Edge(3, 4, 5, "Ta Quang Buu") >>,
    << Edge(1, 3, None, "Le Thanh Nghi"), Edge(1, 3, 2, "Tran Dai Nghia"),
       Edge(3, 4, 1, "Ta Quang Buu") >> }

\* latitudes of the scenario's nodes, in grid steps
ScenarioLats == {0, 400}

\* nodes[nid] = Point(id=nid, lat=data['y'], lon=data['x'])   (lines 159-163)
NodeTable(lats) == [n \in NodeIds |-> Point(n, lats[n], 0)]

\* a loader that gives an edge without a usable length the weight 0
EdgeWeightZero(data, nds) ==
  LET length == data.length
  IN  IF length = None \/ length <= 0 THEN 0 ELSE length

\* lines 169-174: the weight of one edge
EdgeWeight(data, nds) ==
  LET length == data.length
  IN  IF length = None \/ length <= 0
      THEN haversine_m(nds[data.u].lat, nds[data.u].lon,
                       nds[data.v].lat, nds[data.v].lon)
      ELSE length

\* line 175: edges.append((u, v, length)), for every edge of g
BuildEdges(g, nds) == [i \in 1 .. Len(g) |-> <<g[i].u, g[i].v, EdgeWeight(g[i], nds)>>]

\* line 176: adj.setdefault(u, []).append((v, length))
AdjAppend(a, u, v, w) ==
  DictSet(a, u, Append(DictGet(a, u, << >>), <<v, w>>))

\* lines 165-176: the loop over G.edges
RECURSIVE BuildAdj(_, _, _, _)
BuildAdj(g, nds, i, a) ==
  IF i > Len(g) THEN a
  ELSE BuildAdj(g, nds, i + 1, AdjAppend(a, g[i].u, g[i].v, EdgeWeight(g[i], nds)))

----------------------------------------------------------------------------
(* AStar.py: astar *)

\* a frontier entry (f, g, node, parent) of open_heap
Entry(ff, gg, n, p) == [f |-> ff, g |-> gg, node |-> n, parent |-> p]

\* a frontier order that prefers, among equal f, the larger g
TupleLessDeepest(a, b) ==
  \/ a.f < b.f
  \/ a.f = b.f /\ a.g > b.g
  \/ a.f = b.f /\ a.g = b.g /\ a.node < b.node
  \/ a.f = b.f /\ a.g = b.g /\ a.node = b.node /\ a.parent < b.parent

\* Python's tuple order on (f, g, node, parent), which heapq uses
TupleLess(a, b) ==
  \/ a.f < b.f
  \/ a.f = b.f /\ a.g < b.g
  \/ a.f = b.f /\ a.g = b.g /\ a.node < b.node
  \/ a.f = b.f /\ a.g = b.g /\ a.node = b.node /\ a.parent < b.parent

\* a frontier that is a plain queue: the oldest entry is popped
HeapMinFifo(h) == 1

\* heapq.heappop: the position, in push order, of the smallest entry
HeapMin(h) ==
  CHOOSE i \in 1 .. Len(h) :
    \A j \in 1 .. Len(h) : j = i \/ TupleLess(h[i], h[j]) \/ (h[i] = h[j] /\ i < j)

Remove(h, i) == [k \in 1 .. Len(h) - 1 |-> IF k < i THEN h[k] ELSE h[k + 1]]

\* heapq.heappush, the entries kept in push order
HeapPush(h, e) == Append(h, e)

\* a stale test without the tolerance, that also skips an entry of equal g
IsStaleStrict(e, gs, tol) == e.g >= FAdd(DictGet(gs, e.node, Inf), tol)

\* a stale test against a g_score table that the calls share (that of call 1)
IsStaleShared(e, gs, tol) == e.g > FAdd(DictGet(g_score[1], e.node, Inf), tol)

\* a stale test with a closed set that the calls share (that of call 1): it
\* also skips the entries of the nodes that call 1 has closed
IsStaleClosedShared(e, gs, tol) ==
  e.g > FAdd(DictGet(gs, e.node, Inf), tol) \/ e.node \in closed[1]

\* line 28: skip outdated heap entries
IsStale(e, gs, tol) == e.g > FAdd(DictGet(gs, e.node, Inf), tol)

\* adj.setdefault(current, []): the lookup that inserts the missing entry
NeighborsSetdefault(a, current) ==
  << DictGet(a, current, << >>), DictSet(a, current, DictGet(a, current, << >>)) >>

\* adj.get(current, [])   (line 44): the list it returns and the mapping
\* after the lookup (dict.get inserts nothing)
Neighbors(a, current) == << DictGet(a, current, << >>), a >>

\* the heuristic of lines 17 and 50
Heuristic(nds, n, gl) == calcDist(to_tuple(nds[n]), to_tuple(nds[gl]))

\* a relaxation that also pushes for a cost equal to the recorded one, and
\* for closed neighbors too
RECURSIVE RelaxOnTies(_, _, _, _, _, _, _, _)
RelaxOnTies(nbrs, k, current, gl, nds, cl, gs, h) ==
  IF k > Len(nbrs) THEN <<gs, h>>
  ELSE LET neighbor == nbrs[k][1]
           tentative_g == FAdd(DictGet(gs, current, Inf), nbrs[k][2])
       IN  IF tentative_g <= DictGet(gs, neighbor, Inf)
           THEN RelaxOnTies(nbrs, k + 1, current, gl, nds, cl,
                      DictSet(gs, neighbor, tentative_g),
                      HeapPush(h, Entry(FAdd(tentative_g, Heuristic(nds, neighbor, gl)),
                                        tentative_g, neighbor, current)))
           ELSE RelaxOnTies(nbrs, k + 1, current, gl, nds, cl, gs, h)

\* a relaxation without the test of lines 45-46: closed neighbors are
\* relaxed like the others
RECURSIVE RelaxReopening(_, _, _, _, _, _, _, _)
RelaxReopening(nbrs, k, current, gl, nds, cl, gs, h) ==
  IF k > Len(nbrs) THEN <<gs, h>>
  ELSE LET neighbor == nbrs[k][1]
           tentative_g == FAdd(DictGet(gs, current, Inf), nbrs[k][2])
       IN  IF tentative_g < DictGet(gs, neighbor, Inf)
           THEN RelaxReopening(nbrs, k + 1, current, gl, nds, cl,
                      DictSet(gs, neighbor, tentative_g),
                      HeapPush(h, Entry(FAdd(tentative_g, Heuristic(nds, neighbor, gl)),
                                        tentative_g, neighbor, current)))
           ELSE RelaxReopening(nbrs, k + 1, current, gl, nds, cl, gs, h)

\* lines 44-52: the relaxation of the neighbors of current, from the k-th on.
\* The result is the pair <<g_score, open_heap>>.
RECURSIVE Relax(_, _, _, _, _, _, _, _)
Relax(nbrs, k, current, gl, nds, cl, gs, h) ==
  IF k > Len(nbrs) THEN <<gs, h>>
  ELSE LET neighbor == nbrs[k][1]
           weight == nbrs[k][2]
           tentative_g == FAdd(DictGet(gs, current, Inf), weight)
       IN  IF neighbor \in cl
           THEN Relax(nbrs, k + 1, current, gl, nds, cl, gs, h)
           ELSE IF tentative_g < DictGet(gs, neighbor, Inf)
           THEN Relax(nbrs, k + 1, current, gl, nds, cl,
                      DictSet(gs, neighbor, tentative_g),
                      HeapPush(h, Entry(FAdd(tentative_g, Heuristic(nds, neighbor, gl)),
                                        tentative_g, neighbor, current)))
           ELSE Relax(nbrs, k + 1, current, gl, nds, cl, gs, h)

\* lines 36-39: walk the came_from links from the goal and reverse.
\* fuel bounds the walk; a walk that outlives it is a loop that never ends.
RECURSIVE WalkBack(_, _, _)
WalkBack(cf, last, fuel) ==
  IF last \notin DOMAIN cf \/ fuel = 0 THEN << last >>
  ELSE Append(WalkBack(cf, cf[last], fuel - 1), last)

\* a reconstruction without the reverse of line 39
ReconstructUnreversed(cf, current) ==
  LET p == WalkBack(cf, current, Cardinality(DOMAIN cf) + 1)
  IN  [i \in 1 .. Len(p) |-> p[Len(p) + 1 - i]]

Reconstruct(cf, current) == WalkBack(cf, current, Cardinality(DOMAIN cf) + 1)


----------------------------------------------------------------------------
(* AStar.py: nearest_node_by_coord *)

\* a scan that keeps the later of two nodes at the same distance
RECURSIVE NearestScanLast(_, _, _, _, _, _)
NearestScanLast(nds, lat, lon, nid, best, best_d) ==
  IF nid \notin DOMAIN nds THEN best
  ELSE LET d == calcDist(<<lat, lon>>, <<nds[nid].lat, nds[nid].lon>>)
       IN  IF d <= best_d
           THEN NearestScanLast(nds, lat, lon, nid + 1, nid, d)
           ELSE NearestScanLast(nds, lat, lon, nid + 1, best, best_d)

\* lines 57-64: the scan over nodes.items(), in the order of the node table
\* (ascending identifier), from identifier nid on
RECURSIVE NearestScan(_, _, _, _, _, _)
NearestScan(nds, lat, lon, nid, best, best_d) ==
  IF nid \notin DOMAIN nds THEN best
  ELSE LET d == calcDist(<<lat, lon>>, <<nds[nid].lat, nds[nid].lon>>)
       IN  IF d < best_d
           THEN NearestScan(nds, lat, lon, nid + 1, nid, d)
           ELSE NearestScan(nds, lat, lon, nid + 1, best, best_d)

nearest_node_by_coord(nds, lat, lon) == NearestScan(nds, lat, lon, 1, None, Inf)

----------------------------------------------------------------------------
(* app_1.py: build_directions *)

\* _bearing_deg on one meridian: dlon = 0, so y = 0 and x = sin(phi2 - phi1);
\* atan2(0, x) is 0 for x >= 0 and 180 degrees for x < 0
bearing_deg(lat1, lon1, lat2, lon2) == IF lat2 < lat1 THEN 180 ELSE 0

\* _delta_bearing (Python's % takes the sign of the divisor, as TLA+'s does)
delta_bearing(b1, b2) == ((b2 - b1 + 180) % 360) - 180

\* Floating point.  A number is an integer count of units; 256 degrees are
\* 2^Significand units.  The numbers of the format are spaced by one unit
\* below 2^Significand units, by two units from there to twice as much, by
\* four units up to twice as much again and so on, as the doubles are by
\* 2^-45 below 256, by 2^-44 from 256 to 512 and by 2^-43 from 512 to 1024.
Units256 == 2 ^ Significand

\* an even number of degrees, in units (the literals 180.0 and 360.0)
Degrees(n) == (n * Units256) \div 256

RECURSIVE Spacing(_)
Spacing(x) == IF Abs(x) < Units256 THEN 1 ELSE 2 * Spacing(Abs(x) \div 2)

IsFloat(x) == x % Spacing(x) = 0

\* round to nearest, ties to the even significand (the IEEE 754 default)
RoundPositive(x) ==
  LET sp == Spacing(x)
      lo == x - (x % sp)
  IN  IF 2 * (x % sp) < sp THEN lo
      ELSE IF 2 * (x % sp) > sp THEN lo + sp
      ELSE IF (lo \div sp) % 2 = 0 THEN lo ELSE lo + sp

Round(x) == IF x < 0 THEN 0 - RoundPositive(0 - x) ELSE RoundPositive(x)

\* x % m of Python floats for m > 0: fmod, which is exact and has the sign
\* of x, and then + m, which is rounded, for a negative remainder
FloatMod(x, m) ==
  LET r == IF x < 0 THEN 0 - ((0 - x) % m) ELSE x % m
  IN  IF r < 0 THEN Round(r + m) ELSE r

\* a + b of two floats
float_add(a, b) == Round(a + b)

\* a _delta_bearing that returns b2 - b1 as it is
float_delta_unwrapped(b1, b2) == Round(b2 - b1)

\* _delta_bearing on floats: d = (b2 - b1 + 180.0) % 360.0 - 180.0
float_delta_bearing(b1, b2) ==
  Round(FloatMod(Round(Round(b2 - b1) + Degrees(180)), Degrees(360)) - Degrees(180))

\* the G of load_graph (app_1.py:71-76): the unpickled multigraph, or None
Loaded(g) == [loaded |-> TRUE, edges |-> g]
NoGraph == [loaded |-> FALSE, edges |-> << >>]

\* attrs = None
NoAttrs == Edge(None, None, None, "")

\* G.get_edge_data(u, v): the data of the parallel edges u -> v, by key
get_edge_data(g, u, v) == SelectSeq(g.edges, LAMBDA e : e.u = u /\ e.v = v)

\* lines 161-167 of _edge_best_data: the attrs of strictly smallest length
RECURSIVE BestScan(_, _, _, _)
BestScan(data, k, best, best_len) ==
  IF k > Len(data) THEN best
  ELSE LET L == IF data[k].length = None THEN Inf ELSE data[k].length
       IN  IF L < best_len
           THEN BestScan(data, k + 1, data[k], L)
           ELSE BestScan(data, k + 1, best, best_len)

\* _edge_best_data: None, or the attrs of one edge u -> v
edge_best_data(g, u, v) ==
  IF g = NoGraph THEN NoAttrs
  ELSE LET data == get_edge_data(g, u, v)
       IN  IF data = << >> THEN NoAttrs
           ELSE LET best == BestScan(data, 1, NoAttrs, Inf)
                IN  IF best # NoAttrs THEN best ELSE data[1]

\* _edge_name
edge_name(attrs) == IF attrs = NoAttrs THEN "" ELSE attrs.name

\* an _edge_length_m without the fallback: a hop without a length is 0 long
edge_length_or_zero(attrs, lat1, lon1, lat2, lon2) ==
  IF attrs # NoAttrs /\ attrs.length # None THEN attrs.length ELSE 0

\* _edge_length_m: the recorded length when it is a number, else haversine
edge_length_m(attrs, lat1, lon1, lat2, lon2) ==
  IF attrs # NoAttrs /\ attrs.length # None
  THEN attrs.length
  ELSE EARTH_R * Abs(lat2 - lat1)

Seg(nm, d, b) == [name |-> nm, dist |-> d, brg |-> b]

\* lines 206-216: the raw segment of the i-th hop of the path
RawSeg(pth, nds, g, i) ==
  LET p1 == nds[pth[i]]
      p2 == nds[pth[i + 1]]
      attrs == edge_best_data(g, pth[i], pth[i + 1])
  IN  Seg(edge_name(attrs),
          edge_length_m(attrs, p1.lat, p1.lon, p2.lat, p2.lon),
          bearing_deg(p1.lat, p1.lon, p2.lat, p2.lon))

RawSegs(pth, nds, g) == [i \in 1 .. Len(pth) - 1 |-> RawSeg(pth, nds, g, i)]

\* a merge that also takes a hop at exactly 20 degrees into the segment
RECURSIVE MergeUpTo20(_, _, _, _)
MergeUpTo20(sgs, k, cur, mrg) ==
  IF k > Len(sgs) THEN Append(mrg, cur)
  ELSE LET s == sgs[k]
           same_name == (s.name = cur.name)
           small_turn == Abs(delta_bearing(cur.brg, s.brg)) <= 20
       IN  IF same_name /\ small_turn
           THEN MergeUpTo20(sgs, k + 1,
                            Seg(cur.name, float_add(cur.dist, s.dist), s.brg), mrg)
           ELSE MergeUpTo20(sgs, k + 1, s, Append(mrg, cur))

\* a merge that leaves the distance of a merged hop out
RECURSIVE MergeDropping(_, _, _, _)
MergeDropping(sgs, k, cur, mrg) ==
  IF k > Len(sgs) THEN Append(mrg, cur)
  ELSE LET s == sgs[k]
           same_name == (s.name = cur.name)
           small_turn == Abs(delta_bearing(cur.brg, s.brg)) < 20
       IN  IF same_name /\ small_turn
           THEN MergeDropping(sgs, k + 1, Seg(cur.name, cur.dist, s.brg), mrg)
           ELSE MergeDropping(sgs, k + 1, s, Append(mrg, cur))

\* lines 221-230: merge consecutive segments of the same street name and a
\* similar direction; cur is the segment being grown
RECURSIVE Merge(_, _, _, _)
Merge(sgs, k, cur, mrg) ==
  IF k > Len(sgs) THEN Append(mrg, cur)
  ELSE LET s == sgs[k]
           same_name == (s.name = cur.name)
           small_turn == Abs(delta_bearing(cur.brg, s.brg)) < 20
       IN  IF same_name /\ small_turn
           THEN Merge(sgs, k + 1, Seg(cur.name, float_add(cur.dist, s.dist), s.brg), mrg)
           ELSE Merge(sgs, k + 1, s, Append(mrg, cur))

\* lines 236-237
fmt_name(nm) == IF nm # "" THEN nm ELSE "duong noi bo"

\* a wording that still goes straight at exactly 15 degrees
TurnFrom16(d) ==
  IF Abs(d) <= 15 THEN "Di thang"
  ELSE IF Abs(d) < 45 THEN (IF d > 0 THEN "Re nhe phai" ELSE "Re nhe trai")
  ELSE IF Abs(d) < 135 THEN (IF d > 0 THEN "Re phai" ELSE "Re trai")
  ELSE "Quay dau"

\* lines 247-256: the turn word for a signed bearing delta
Turn(d) ==
  IF Abs(d) < 15 THEN "Di thang"
  ELSE IF Abs(d) < 45 THEN (IF d > 0 THEN "Re nhe phai" ELSE "Re nhe trai")
  ELSE IF Abs(d) < 135 THEN (IF d > 0 THEN "Re phai" ELSE "Re trai")
  ELSE "Quay dau"

Step(n, verb, what, d) ==
  [step |-> n, instruction |-> <<verb, what>>, distance_m |-> d]

\* lines 218-230: the merged segments of the raw segments segs
MergeAll(sgs) == Merge(sgs, 2, sgs[1], << >>)

\* an instruction list whose step counter is advanced once more before the
\* arrival marker
StepsOfSkipping(mrg, origin_label, dest_label) ==
  LET first == << Step(1, "Bat dau tai", origin_label, 0),
                  Step(2, "Di theo", fmt_name(mrg[1].name), mrg[1].dist) >>
      turns == [i \in 1 .. Len(mrg) - 1 |->
                  Step(i + 2,
                       Turn(delta_bearing(mrg[i].brg, mrg[i + 1].brg)),
                       fmt_name(mrg[i + 1].name),
                       mrg[i + 1].dist)]
  IN  first \o turns \o << Step(Len(mrg) + 3, "Den noi", dest_label, 0) >>

\* lines 232-268: the instruction list of the merged segments mrg
StepsOf(mrg, origin_label, dest_label) ==
  LET first == << Step(1, "Bat dau tai", origin_label, 0),
                  Step(2, "Di theo", fmt_name(mrg[1].name), mrg[1].dist) >>
      turns == [i \in 1 .. Len(mrg) - 1 |->
                  Step(i + 2,
                       Turn(delta_bearing(mrg[i].brg, mrg[i + 1].brg)),
                       fmt_name(mrg[i + 1].name),
                       mrg[i + 1].dist)]
  IN  first \o turns \o << Step(Len(mrg) + 2, "Den noi", dest_label, 0) >>

\* a build_directions that frames every non-empty path, also a single node,
\* with the start and the arrival marker
build_directions_framed(path_nodes, nds, g, origin_label, dest_label) ==
  IF Len(path_nodes) = 0 THEN << >>
  ELSE IF Len(path_nodes) = 1
  THEN << Step(1, "Bat dau tai", origin_label, 0), Step(2, "Den noi", dest_label, 0) >>
  ELSE StepsOf(MergeAll(RawSegs(path_nodes, nds, g)), origin_label, dest_label)

\* lines 200-268 (an empty path stands for None too: line 200 tests
\* 'not path_nodes')
build_directions(path_nodes, nds, g, origin_label, dest_label) ==
  IF Len(path_nodes) < 2 THEN << >>
  ELSE StepsOf(MergeAll(RawSegs(path_nodes, nds, g)), origin_label, dest_label)

----------------------------------------------------------------------------
(* Inputs and initial states *)

graph == <<G, nodes, adj, eps, asks>>
locals == <<g_score, open_heap, came_from, closed>>
vars == <<G, nodes, adj, eps, asks, pc, coords, start, goal, g_score, open_heap,
          came_from, closed, path, cost, trace, meta, segs, merged, steps,
          brgs, delta, geo, dl>>
narration == <<meta, segs, merged, steps>>
\* the variables of the other functions
aside == <<brgs, delta, geo, dl>>

\* the identifiers a caller may pass to astar
Ids == NodeIds \cup {UnknownId}

\* one caller on a special or scenario graph: any goal, from node 1, from
\* node 2 and from an unknown node
SingleAsks == {1, 2, UnknownId} \X Ids

\* one caller on a generated graph, and each of two callers at once: one of
\* these routes
PairAsks == {<<1, 3>>, <<1, 4>>, <<2, 4>>}

\* one loop iteration, as recorded in trace: the popped entry, what the
\* iteration did with it, and the frontier it was popped from
Iteration(e, k, h) == [entry |-> e, kind |-> k, heap |-> h]

\* no other function has been called
\* no call of geocode_address
GeoIdle ==
  [pc |-> "idle", search_address |-> << >>, retries |-> 0, attempt |-> 0,
   requests |-> << >>, result |-> <<None, None>>, warned |-> FALSE]

\* the four pickle files of build_and_save_graph (lines 34-37)
Files == {"Adj", "Nodes", "Edges", "Graph"}

\* no call of build_and_save_graph, no pickle file
DlIdle ==
  [pc |-> "idle", force_download |-> FALSE,
   before |-> [f \in Files |-> "absent"], files |-> [f \in Files |-> "absent"],
   tried |-> << >>, G |-> "none", error |-> "none"]

AsideIdle ==
  /\ brgs = <<0, 0>>
  /\ delta = None
  /\ geo = GeoIdle
  /\ dl = DlIdle

InitCalls ==
  /\ pc = [c \in Calls |-> "idle"]
  /\ coords = [c \in Calls |-> <<None, None>>]
  /\ start = [c \in Calls |-> None]
  /\ goal = [c \in Calls |-> None]
  /\ g_score = [c \in Calls |-> EmptyDict]
  /\ open_heap = [c \in Calls |-> << >>]
  /\ came_from = [c \in Calls |-> EmptyDict]
  /\ closed = [c \in Calls |-> {}]
  /\ path = [c \in Calls |-> << >>]
  /\ cost = [c \in Calls |-> None]
  /\ trace = [c \in Calls |-> << >>]
  /\ meta = [c \in Calls |-> NoGraph]
  /\ segs = [c \in Calls |-> << >>]
  /\ merged = [c \in Calls |-> << >>]
  /\ steps = [c \in Calls |-> << >>]
  /\ AsideIdle

\* a generated multigraph with lengths of the order of the tolerance
InitGenerated ==
  /\ \E choice \in [1 .. Len(Slots) -> SlotChoices] : G = EdgesOf(choice, 1)
  /\ \E lats \in [NodeIds -> 0 .. MaxLat] : lats[1] = 0 /\ nodes = NodeTable(lats)
  /\ eps = 1

InitSpecial ==
  /\ G \in SpecialGraphs
  /\ \E lats \in [NodeIds -> 0 .. MaxLat] : lats[1] = 0 /\ nodes = NodeTable(lats)
  /\ eps = 1

\* the scenario graph, lengths in metres, at any of the scenario's coordinates
InitScenario ==
  /\ G = ScenarioG
  /\ \E lats \in [NodeIds -> ScenarioLats] : nodes = NodeTable(lats)
  /\ eps = 0

Init ==
  /\ \/ InitGenerated /\ asks = [c \in Calls |-> IF c = 1 THEN PairAsks ELSE {}]
     \/ InitSpecial /\ asks = [c \in Calls |-> IF c = 1 THEN SingleAsks ELSE {}]
     \/ InitScenario /\ asks = [c \in Calls |-> IF c = 1 THEN SingleAsks ELSE {}]
  /\ adj = BuildAdj(G, nodes, 1, EmptyDict)
  /\ InitCalls

\* a generated multigraph for two concurrent callers: every slot has an
\* edge, without a length or with the recorded length 1
InitPairGenerated ==
  /\ \E choice \in [1 .. Len(Slots) -> {None, 1}] : G = EdgesOf(choice, 1)
  /\ \E lats \in [NodeIds -> 0 .. MaxLat] : lats[1] = 0 /\ nodes = NodeTable(lats)
  /\ eps = 1

InitPair ==
  /\ InitPairGenerated \/ InitSpecial \/ InitScenario
  /\ adj = BuildAdj(G, nodes, 1, EmptyDict)
  /\ asks = [c \in Calls |-> PairAsks]
  /\ InitCalls

----------------------------------------------------------------------------
(* astar(adj, nodes, start, goal), one call c *)

\* an astar without the shortcut of line 13
SameNodeNever(s, gl) == FALSE

\* line 13: start == goal
SameNode(s, gl) == s = gl

\* lines 13-22: the call, up to the loop
Call(c, s, gl) ==
  /\ pc[c] = "idle"
  /\ <<s, gl>> \in asks[c]
  /\ start' = [start EXCEPT ![c] = s]
  /\ goal' = [goal EXCEPT ![c] = gl]
  /\ IF SameNode(s, gl)
     THEN /\ pc' = [pc EXCEPT ![c] = "returned"]
          /\ path' = [path EXCEPT ![c] = << s >>]
          /\ cost' = [cost EXCEPT ![c] = 0]
          /\ UNCHANGED locals
     ELSE IF s \notin DOMAIN nodes \/ gl \notin DOMAIN nodes
     THEN \* nodes[start] or nodes[goal] raises KeyError (line 17)
          /\ pc' = [pc EXCEPT ![c] = "raised"]
          /\ g_score' = [g_score EXCEPT ![c] = DictSet(EmptyDict, s, 0)]
          /\ UNCHANGED <<open_heap, came_from, closed, path, cost>>
     ELSE /\ pc' = [pc EXCEPT ![c] = "loop"]
          /\ g_score' = [g_score EXCEPT ![c] = DictSet(EmptyDict, s, 0)]
          /\ open_heap' = [open_heap EXCEPT ![c] =
                             HeapPush(<< >>, Entry(Heuristic(nodes, s, gl), 0, s, None))]
          /\ came_from' = [came_from EXCEPT ![c] = EmptyDict]
          /\ closed' = [closed EXCEPT ![c] = {}]
          /\ UNCHANGED <<path, cost>>
  /\ UNCHANGED <<graph, trace, narration, aside>>

\* testing.py:3-8: a caller that passes node identifiers to astar
Ask(c, s, gl) == Call(c, s, gl) /\ UNCHANGED coords

\* the entry that the next heappop of call c returns
Top(c) == open_heap[c][HeapMin(open_heap[c])]

Log(c, kind) ==
  Append(trace[c], Iteration(Top(c), kind, open_heap[c]))

\* line 32: came_from[current] = parent
SetParent(cf, e) == IF e.parent # None THEN DictSet(cf, e.node, e.parent) ELSE cf

\* lines 25-29: an outdated entry is popped and skipped
PopStale(c) ==
  /\ pc[c] = "loop"
  /\ open_heap[c] # << >>
  /\ IsStale(Top(c), g_score[c], eps)
  /\ open_heap' = [open_heap EXCEPT ![c] = Remove(open_heap[c], HeapMin(open_heap[c]))]
  /\ trace' = [trace EXCEPT ![c] = Log(c, "stale")]
  /\ UNCHANGED <<graph, pc, coords, start, goal, g_score, came_from, closed, path, cost, narration, aside>>

\* lines 25-40: the goal is popped, the path is rebuilt and returned
PopGoal(c) ==
  /\ pc[c] = "loop"
  /\ open_heap[c] # << >>
  /\ ~IsStale(Top(c), g_score[c], eps)
  /\ Top(c).node = goal[c]
  /\ LET cf == SetParent(came_from[c], Top(c))
     IN  /\ came_from' = [came_from EXCEPT ![c] = cf]
         /\ path' = [path EXCEPT ![c] = Reconstruct(cf, Top(c).node)]
  /\ cost' = [cost EXCEPT ![c] = DictGet(g_score[c], goal[c], 0)]
  /\ open_heap' = [open_heap EXCEPT ![c] = Remove(open_heap[c], HeapMin(open_heap[c]))]
  /\ pc' = [pc EXCEPT ![c] = "returned"]
  /\ trace' = [trace EXCEPT ![c] = Log(c, "goal")]
  /\ UNCHANGED <<graph, coords, start, goal, g_score, closed, narration, aside>>

\* lines 25-52: another node is popped, closed and its neighbors relaxed
Expand(c) ==
  /\ pc[c] = "loop"
  /\ open_heap[c] # << >>
  /\ ~IsStale(Top(c), g_score[c], eps)
  /\ Top(c).node # goal[c]
  /\ LET current == Top(c).node
         cl == closed[c] \cup {current}
         nb == Neighbors(adj, current)
         r == Relax(nb[1], 1, current, goal[c], nodes, cl,
                    g_score[c], Remove(open_heap[c], HeapMin(open_heap[c])))
     IN  /\ adj' = nb[2]
         /\ came_from' = [came_from EXCEPT ![c] = SetParent(came_from[c], Top(c))]
         /\ closed' = [closed EXCEPT ![c] = cl]
         /\ g_score' = [g_score EXCEPT ![c] = r[1]]
         /\ open_heap' = [open_heap EXCEPT ![c] = r[2]]
  /\ trace' = [trace EXCEPT ![c] = Log(c, "expand")]
  /\ UNCHANGED <<G, nodes, eps, asks, pc, coords, start, goal, path, cost, narration, aside>>

\* lines 24, 54: the frontier is empty
Exhausted(c) ==
  /\ pc[c] = "loop"
  /\ open_heap[c] = << >>
  /\ pc' = [pc EXCEPT ![c] = "returned"]
  /\ path' = [path EXCEPT ![c] = << >>]
  /\ cost' = [cost EXCEPT ![c] = Inf]
  /\ UNCHANGED <<graph, coords, start, goal, locals, trace, narration, aside>>

\* lines 24-54 as one run: the loop from the locals gs, h, cf, cl to the
\* return, with the iterations tr it makes
RECURSIVE Loop(_, _, _, _, _, _, _, _, _)
Loop(a, nds, gl, tol, gs, h, cf, cl, tr) ==
  IF h = << >> THEN [path |-> << >>, cost |-> Inf, trace |-> tr]
  ELSE LET e == h[HeapMin(h)]
           rest == Remove(h, HeapMin(h))
       IN  IF IsStale(e, gs, tol)
           THEN Loop(a, nds, gl, tol, gs, rest, cf, cl,
                     Append(tr, Iteration(e, "stale", h)))
           ELSE IF e.node = gl
           THEN [path |-> Reconstruct(SetParent(cf, e), e.node),
                 cost |-> DictGet(gs, gl, 0),
                 trace |-> Append(tr, Iteration(e, "goal", h))]
           ELSE LET r == Relax(Neighbors(a, e.node)[1], 1, e.node, gl, nds,
                               cl \cup {e.node}, gs, rest)
                IN  Loop(a, nds, gl, tol, r[1], r[2], SetParent(cf, e),
                         cl \cup {e.node}, Append(tr, Iteration(e, "expand", h)))

\* astar(adj, nodes, start, goal) for known nodes, run from the call to the
\* return with no other call in between
astar(a, nds, s, gl, tol) ==
  IF SameNode(s, gl) THEN [path |-> << s >>, cost |-> 0, trace |-> << >>]
  ELSE Loop(a, nds, gl, tol, DictSet(EmptyDict, s, 0),
            HeapPush(<< >>, Entry(Heuristic(nds, s, gl), 0, s, None)),
            EmptyDict, {}, << >>)

\* the latitudes of the points a caller may ask for: those of the grid
\* that holds the nodes and one further north
Probes == 0 .. MaxLat + 1

\* app_1.py:336-340, run_path.py:83-87: the caller resolves two coordinates
\* to their nearest nodes and calls astar on them
Locate(c, lat1, lat2) ==
  /\ pc[c] = "idle"
  /\ asks[c] # {}
  /\ Call(c, nearest_node_by_coord(nodes, lat1, 0),
             nearest_node_by_coord(nodes, lat2, 0))
  /\ coords' = [coords EXCEPT ![c] = <<lat1, lat2>>]

\* the Graph.pkl that load_graph finds (app_1.py:61-78): the multigraph the
\* other files were built from, one of an older download that lacks the
\* first edge, or none that can be read
OlderGraph(g) == IF g = << >> THEN g ELSE Tail(g)
Metadata == {Loaded(G), Loaded(OlderGraph(G)), NoGraph}

\* app_1.py:342-373: the caller narrates a path that astar returned
Directions(c) ==
  /\ pc[c] = "returned"
  /\ path[c] # << >>
  /\ \E g \in Metadata :
       /\ meta' = [meta EXCEPT ![c] = g]
       /\ LET sgs == IF Len(path[c]) < 2 THEN << >> ELSE RawSegs(path[c], nodes, g)
          IN  /\ segs' = [segs EXCEPT ![c] = sgs]
              /\ merged' = [merged EXCEPT ![c] =
                              IF sgs = << >> THEN << >> ELSE MergeAll(sgs)]
       /\ steps' = [steps EXCEPT ![c] =
                      build_directions(path[c], nodes, g, "Xuat phat", "Dich")]
  /\ pc' = [pc EXCEPT ![c] = "shown"]
  /\ UNCHANGED <<graph, coords, start, goal, locals, path, cost, trace, aside>>

Next ==
  \E c \in Calls :
    \/ \E q \in asks[c] : Ask(c, q[1], q[2])
    \/ \E lat1 \in Probes, lat2 \in Probes : Locate(c, lat1, lat2)
    \/ PopStale(c)
    \/ PopGoal(c)
    \/ Expand(c)
    \/ Exhausted(c)
    \/ Directions(c)

Spec == Init /\ [][Next]_vars

\* two callers that pass node identifiers to astar at once, as two threads
\* running testing.py's time_astar would: the steps of astar alone
NextPair ==
  \E c \in Calls :
    \/ \E q \in asks[c] : Ask(c, q[1], q[2])
    \/ PopStale(c)
    \/ PopGoal(c)
    \/ Expand(c)
    \/ Exhausted(c)

SpecPair == InitPair /\ [][NextPair]_vars

\* one iteration of the loop of call c, or its end
Iterate(c) == PopStale(c) \/ PopGoal(c) \/ Expand(c) \/ Exhausted(c)

\* one caller that passes node identifiers, any of SingleAsks, on a graph
\* with cycles, zero weights and parallel edges or on one without
InitFair ==
  /\ InitPairGenerated \/ InitSpecial \/ InitScenario
  /\ adj = BuildAdj(G, nodes, 1, EmptyDict)
  /\ asks = [c \in Calls |-> IF c = 1 THEN SingleAsks ELSE {}]
  /\ InitCalls

\* a call of astar that is in its loop goes on: the interpreter runs the
\* next iteration of the caller's thread
SpecFair ==
  InitFair /\ [][NextPair]_vars /\ \A c \in Calls : WF_vars(Iterate(c))


----------------------------------------------------------------------------
(* build_directions from line 218 on, for raw segments of any bearings.    *)
(* The node tables of the other specifications lie on one meridian, where  *)
(* _bearing_deg is 0 or 180; here the bearings that _bearing_deg gives for *)
(* nodes off the meridian are inputs, in whole degrees, and the caller and *)
(* the coordinates are not modelled.                                       *)

\* bearings on both sides of every threshold of lines 223 and 249-256
Bearings == {0, 14, 15, 19, 20, 44, 45, 134, 135, 180, 345}

StreetNames == {"", "Tran Dai Nghia"}

\* the raw segments of a path of n hops (line 216); the k-th hop is 2^(k-1)
\* long, so a sum of distances tells which hops it is of
RawInput(n, nm, b) == [k \in 1 .. n |-> Seg(nm[k], 2 ^ (k - 1), b[k])]

InitDirections ==
  /\ G = << >> /\ nodes = NodeTable([n \in NodeIds |-> 0])
  /\ adj = EmptyDict /\ eps = 1
  /\ asks = [c \in Calls |-> {}]
  /\ pc = [c \in Calls |-> IF c = 1 THEN "segmented" ELSE "idle"]
  /\ coords = [c \in Calls |-> <<None, None>>]
  /\ start = [c \in Calls |-> None]
  /\ goal = [c \in Calls |-> None]
  /\ g_score = [c \in Calls |-> EmptyDict]
  /\ open_heap = [c \in Calls |-> << >>]
  /\ came_from = [c \in Calls |-> EmptyDict]
  /\ closed = [c \in Calls |-> {}]
  /\ path = [c \in Calls |-> << >>]
  /\ cost = [c \in Calls |-> None]
  /\ trace = [c \in Calls |-> << >>]
  /\ meta = [c \in Calls |-> NoGraph]
  /\ \E n \in 1 .. MaxHops :
       \E nm \in [1 .. n -> StreetNames] : \E b \in [1 .. n -> Bearings] :
         segs = [c \in Calls |-> IF c = 1 THEN RawInput(n, nm, b) ELSE << >>]
  /\ merged = [c \in Calls |-> << >>]
  /\ steps = [c \in Calls |-> << >>]
  /\ AsideIdle

\* lines 218-268: the raw segments are merged and worded
Narrate(c) ==
  /\ pc[c] = "segmented"
  /\ merged' = [merged EXCEPT ![c] = MergeAll(segs[c])]
  /\ steps' = [steps EXCEPT ![c] = StepsOf(MergeAll(segs[c]), "Xuat phat", "Dich")]
  /\ pc' = [pc EXCEPT ![c] = "shown"]
  /\ UNCHANGED <<graph, coords, start, goal, locals, path, cost, trace, meta, segs, aside>>

NextDirections == \E c \in Calls : Narrate(c)

SpecDirections == InitDirections /\ [][NextDirections]_vars

----------------------------------------------------------------------------
(* build_directions from line 218 on, for raw segments of any lengths *)

\* the lengths of the hops: short ones, and two about as long as the least
\* number from which the floats are two units apart
Lengths == {1, 2, Units256 - 1, Units256}

\* the bearings of the hops: northward and 20 degrees east of north
Headings == {0, 20}

InitDistances ==
  /\ G = << >> /\ nodes = NodeTable([n \in NodeIds |-> 0])
  /\ adj = EmptyDict /\ eps = 1
  /\ asks = [c \in Calls |-> {}]
  /\ pc = [c \in Calls |-> IF c = 1 THEN "segmented" ELSE "idle"]
  /\ coords = [c \in Calls |-> <<None, None>>]
  /\ start = [c \in Calls |-> None]
  /\ goal = [c \in Calls |-> None]
  /\ g_score = [c \in Calls |-> EmptyDict]
  /\ open_heap = [c \in Calls |-> << >>]
  /\ came_from = [c \in Calls |-> EmptyDict]
  /\ closed = [c \in Calls |-> {}]
  /\ path = [c \in Calls |-> << >>]
  /\ cost = [c \in Calls |-> None]
  /\ trace = [c \in Calls |-> << >>]
  /\ meta = [c \in Calls |-> NoGraph]
  /\ \E n \in 1 .. MaxHops :
       \E nm \in [1 .. n -> StreetNames] : \E b \in [1 .. n -> Headings] :
         \E d \in [1 .. n -> Lengths] :
           segs = [c \in Calls |->
                     IF c = 1 THEN [k \in 1 .. n |-> Seg(nm[k], d[k], b[k])] ELSE << >>]
  /\ merged = [c \in Calls |-> << >>]
  /\ steps = [c \in Calls |-> << >>]
  /\ AsideIdle

SpecDistances == InitDistances /\ [][NextDirections]_vars

----------------------------------------------------------------------------
(* _delta_bearing on floating-point bearings *)

\* the main program at rest
Resting ==
  /\ G = << >> /\ nodes = NodeTable([n \in NodeIds |-> 0])
  /\ adj = EmptyDict /\ eps = 1
  /\ asks = [c \in Calls |-> {}]
  /\ pc = [c \in Calls |-> "idle"]
  /\ coords = [c \in Calls |-> <<None, None>>]
  /\ start = [c \in Calls |-> None]
  /\ goal = [c \in Calls |-> None]
  /\ g_score = [c \in Calls |-> EmptyDict]
  /\ open_heap = [c \in Calls |-> << >>]
  /\ came_from = [c \in Calls |-> EmptyDict]
  /\ closed = [c \in Calls |-> {}]
  /\ path = [c \in Calls |-> << >>]
  /\ cost = [c \in Calls |-> None]
  /\ trace = [c \in Calls |-> << >>]
  /\ meta = [c \in Calls |-> NoGraph]
  /\ segs = [c \in Calls |-> << >>]
  /\ merged = [c \in Calls |-> << >>]
  /\ steps = [c \in Calls |-> << >>]

main == <<graph, pc, coords, start, goal, locals, path, cost, trace, narration>>

\* the bearings that _bearing_deg can return: the floats of [0, 360)
FloatBearings == {b \in 0 .. Degrees(360) - 1 : IsFloat(b)}

InitBearing ==
  /\ Resting
  /\ brgs \in FloatBearings \X FloatBearings
  /\ delta = None
  /\ geo = GeoIdle
  /\ dl = DlIdle

\* app_1.py:147-150: one call of _delta_bearing
Measure ==
  /\ delta = None
  /\ delta' = float_delta_bearing(brgs[1], brgs[2])
  /\ UNCHANGED <<main, brgs, geo, dl>>

NextBearing == Measure

SpecBearing == InitBearing /\ [][NextBearing]_vars

----------------------------------------------------------------------------
(* geocode_address (src/src/geocode_address.py) *)

\* lines 11-16, in grid steps
BACHKHOA_BBOX == [north |-> 3, south |-> 1, east |-> 3, west |-> 1]

\* lines 33-36
is_in_bachkhoa_area(lat, lon) ==
  /\ BACHKHOA_BBOX.south <= lat /\ lat <= BACHKHOA_BBOX.north
  /\ BACHKHOA_BBOX.west <= lon /\ lon <= BACHKHOA_BBOX.east

\* the addresses asked for; those of MentionsBachKhoa contain "Bach Khoa"
Addresses == {"Thu vien Ta Quang Buu", "Dai hoc Bach Khoa"}
MentionsBachKhoa == {"Dai hoc Bach Khoa"}

\* lines 50-53: the address with its context
search_address(address) ==
  IF address \in MentionsBachKhoa THEN <<address>>
  ELSE <<address, "Bach Khoa, Hai Ba Trung, Ha Noi, Vietnam">>

\* the places the geocoder may find: two corners of the area, one outside
Places == {<<1, 1>>, <<3, 3>>, <<4, 2>>}

\* what a request to the geocoder can end with (lines 60-97)
Outcome(kind, loc) == [kind |-> kind, loc |-> loc]
Failure(kind) == Outcome(kind, <<None, None>>)

\* a handler that tries again after an empty result as well
RetriedWhenEmpty(o, attempt, retries) ==
  o.kind \in {"timeout", "empty"} /\ attempt < retries - 1

\* lines 83-86: the request is tried again
Retried(o, attempt, retries) == o.kind = "timeout" /\ attempt < retries - 1

\* lines 58-97: the body of the loop for a request that ended with o
Handle(g, o) ==
  LET asked == [g EXCEPT !.requests = Append(@, o)]
  IN  IF o.kind = "found"
      THEN [asked EXCEPT !.pc = "returned", !.result = o.loc,
                         !.warned = ~ is_in_bachkhoa_area(o.loc[1], o.loc[2])]
      ELSE IF Retried(o, g.attempt, g.retries)
      THEN [asked EXCEPT !.pc = "sleeping"]
      ELSE [asked EXCEPT !.pc = "returned", !.result = <<None, None>>]

Geocoding ==
  /\ Resting /\ brgs = <<0, 0>> /\ delta = None /\ dl = DlIdle
  /\ \E a \in Addresses : \E r \in 0 .. MaxRetries :
       geo = [GeoIdle EXCEPT !.pc = "loop", !.search_address = search_address(a),
                             !.retries = r]

\* line 57: the loop makes another request
Requesting == geo.pc = "loop" /\ geo.attempt < geo.retries

Request(o) ==
  /\ Requesting
  /\ geo' = Handle(geo, o)
  /\ UNCHANGED <<main, brgs, delta, dl>>

\* lines 68-78
Found(loc) == Request(Outcome("found", loc))
\* lines 79-81
NoResult == Request(Failure("empty"))
\* lines 83-89
TimedOut == Request(Failure("timeout"))
\* lines 91-93
ServiceError == Request(Failure("service error"))
\* lines 95-97
Unexpected == Request(Failure("exception"))

\* line 86, line 57: after the pause the next attempt
Slept ==
  /\ geo.pc = "sleeping"
  /\ geo' = [geo EXCEPT !.pc = "loop", !.attempt = @ + 1]
  /\ UNCHANGED <<main, brgs, delta, dl>>

\* line 99: the loop is over
LoopEnded ==
  /\ geo.pc = "loop" /\ geo.attempt >= geo.retries
  /\ geo' = [geo EXCEPT !.pc = "returned", !.result = <<None, None>>]
  /\ UNCHANGED <<main, brgs, delta, dl>>

NextGeocode ==
  \/ \E loc \in Places : Found(loc)
  \/ NoResult
  \/ TimedOut
  \/ ServiceError
  \/ Unexpected
  \/ Slept
  \/ LoopEnded

SpecGeocode == Geocoding /\ [][NextGeocode]_vars

\* a request ends (timeout=10, line 65), the pause ends, the call goes on
SpecGeocodeFair == SpecGeocode /\ WF_vars(NextGeocode)

----------------------------------------------------------------------------
(* The download of build_and_save_graph (src/src/load_map_bachkhoa.py) *)

\* lines 65-103: the download methods in the order of the code
Methods == <<"all", "custom_filter", "all_private">>

\* a function that downloads whatever is on the disk
download_always(force_download, files) == TRUE

\* line 39, negated: the pickles are not all there, or a download is forced
download_needed(force_download, files) ==
  force_download \/ \E f \in Files : files[f] = "absent"

Downloading ==
  /\ Resting /\ brgs = <<0, 0>> /\ delta = None /\ geo = GeoIdle
  /\ \E force \in BOOLEAN : \E old \in SUBSET Files :
       LET disk == [f \in Files |-> IF f \in old THEN "old" ELSE "absent"]
       IN  dl = [DlIdle EXCEPT !.pc = "start", !.force_download = force,
                               !.before = disk, !.files = disk]

\* lines 39-41: the pickles exist
Cached ==
  /\ dl.pc = "start" /\ ~ download_needed(dl.force_download, dl.files)
  /\ dl' = [dl EXCEPT !.pc = "returned"]
  /\ UNCHANGED <<main, brgs, delta, geo>>

\* one call of ox.graph_from_point: it returns a graph or raises
Download(from, i, failed, ok) ==
  /\ dl.pc = from
  /\ dl' = [dl EXCEPT !.tried = Append(@, [method |-> Methods[i], ok |-> ok]),
                      !.G = IF ok THEN Methods[i] ELSE @,
                      !.pc = IF ok THEN "downloaded" ELSE failed,
                      !.error = IF ~ ok /\ failed = "raised" THEN "RuntimeError" ELSE @]
  /\ UNCHANGED <<main, brgs, delta, geo>>

\* lines 65-76
Method1 ==
  /\ download_needed(dl.force_download, dl.files)
  /\ \E ok \in BOOLEAN : Download("start", 1, "method 2", ok)
\* lines 77-93
Method2 == \E ok \in BOOLEAN : Download("method 2", 2, "method 3", ok)
\* lines 94-106
Method3 == \E ok \in BOOLEAN : Download("method 3", 3, "raised", ok)

\* lines 108-194: the four pickles are written from the downloaded graph
Save ==
  /\ dl.pc = "downloaded"
  /\ dl' = [dl EXCEPT !.files = [f \in Files |-> dl.G], !.pc = "returned"]
  /\ UNCHANGED <<main, brgs, delta, geo>>

NextDownload == Cached \/ Method1 \/ Method2 \/ Method3 \/ Save

SpecDownload == Downloading /\ [][NextDownload]_vars

----------------------------------------------------------------------------
(* Reference notions the claims are stated with *)

Min(S) == CHOOSE x \in S : \A y \in S : x <= y

Done(c) == pc[c] \in {"returned", "shown"}

\* the least weight among the entries for v in the list nbrs, from the k-th
\* on, if below w
RECURSIVE LeastWeight(_, _, _, _)
LeastWeight(nbrs, v, k, w) ==
  IF k > Len(nbrs) THEN w
  ELSE LeastWeight(nbrs, v, k + 1,
                   IF nbrs[k][1] = v /\ nbrs[k][2] < w THEN nbrs[k][2] ELSE w)

\* the weight of the hop u -> v: the least among the parallel entries
\* (Inf: there is no entry)
HopWeight(a, u, v) ==
  IF u \in DOMAIN a THEN LeastWeight(a[u], v, 1, Inf) ELSE Inf

\* the cost of a node sequence as a path of the adjacency mapping
RECURSIVE PathCost(_, _)
PathCost(a, p) ==
  IF Len(p) < 2 THEN 0
  ELSE FAdd(HopWeight(a, p[1], p[2]), PathCost(a, Tail(p)))

\* the cost of a cheapest path from n to t that avoids the nodes in seen, by
\* exhaustive search over the paths without a repeated node: a cheapest
\* path is among them, since no weight is negative (Inf: there is none)
RECURSIVE Cheapest(_, _, _, _)
Cheapest(a, n, t, seen) ==
  IF n = t THEN 0
  ELSE LET nbrs == DictGet(a, n, << >>)
           onward == {k \in 1 .. Len(nbrs) : nbrs[k][1] \notin seen \cup {n}}
       IN  Min({Inf} \cup {FAdd(nbrs[k][2], Cheapest(a, nbrs[k][1], t, seen \cup {n})) :
                             k \in onward})

TrueDist(a, n, t) == Cheapest(a, n, t, {})

Reachable(a, n, t) == TrueDist(a, n, t) < Inf

\* the graph invariants of the specification
GraphInvariants(a, nds) ==
  \A u \in DOMAIN a :
    /\ u \in DOMAIN nds
    /\ \A k \in 1 .. Len(a[u]) : a[u][k][1] \in DOMAIN nds /\ a[u][k][2] >= 0

\* h(u) <= w(u, v) + h(v) on every edge, for the heuristic towards gl
ConsistentFor(a, nds, gl) ==
  \A u \in DOMAIN a : \A k \in 1 .. Len(a[u]) :
    Heuristic(nds, u, gl) <= a[u][k][2] + Heuristic(nds, a[u][k][1], gl)

\* a call astar(adj, nodes, start, goal) of known, different nodes
Searched(c) ==
  /\ Done(c)
  /\ start[c] # goal[c]
  /\ start[c] \in DOMAIN nodes
  /\ goal[c] \in DOMAIN nodes

IsScenario(c) == G = ScenarioG /\ start[c] = 1 /\ goal[c] = 4

\* the place of the popped entry in the push order of its frontier
Place(it) == CHOOSE i \in 1 .. Len(it.heap) : it.heap[i] = it.entry

----------------------------------------------------------------------------
(* C1 *)

\* C1 as stated: whenever the goal is reachable, the returned cost is at
\* most the cost of every start-to-goal path; on the scenario graph the
\* result is [A,B,C,D] with cost 300 at any coordinates.
C1_OptimalOnEveryGraph ==
  \A c \in Calls :
    Searched(c) /\ GraphInvariants(adj, nodes) /\ Reachable(adj, start[c], goal[c])
    => /\ cost[c] <= TrueDist(adj, start[c], goal[c])
       /\ IsScenario(c) => path[c] = <<1, 2, 3, 4>> /\ cost[c] = 300

\* C1 amended: the same, for the graphs on which the great-circle heuristic
\* towards the goal is consistent (h(u) <= w(u,v) + h(v) on every edge).
C1_OptimalWhenConsistent ==
  \A c \in Calls :
    /\ Searched(c) /\ GraphInvariants(adj, nodes)
    /\ ConsistentFor(adj, nodes, goal[c])
    /\ Reachable(adj, start[c], goal[c])
    => /\ cost[c] <= TrueDist(adj, start[c], goal[c])
       /\ IsScenario(c) => path[c] = <<1, 2, 3, 4>> /\ cost[c] = 300

\* the scenario answered with the three-hop route, the direct edge refused
C1_Witness ==
  \E c \in Calls :
    /\ Searched(c) /\ IsScenario(c) /\ ConsistentFor(adj, nodes, goal[c])
    /\ path[c] = <<1, 2, 3, 4>> /\ cost[c] = 300
    /\ \E i \in 1 .. Len(trace[c]) : trace[c][i].kind = "expand"


----------------------------------------------------------------------------
(* C2 *)

\* C2: whenever astar returns a non-empty path, the returned cost is
\* exactly the cost of that path, each hop counted with the least weight
\* among the parallel entries of the adjacency mapping.
C2_CostIsPathCost ==
  \A c \in Calls :
    Done(c) /\ path[c] # << >> => cost[c] = PathCost(adj, path[c])

----------------------------------------------------------------------------
(* C3 *)

\* C3: for known start # goal, astar returns normally, and it returns the
\* empty path with infinite cost exactly when the goal is not reachable.
C3_NoPathIffUnreachable ==
  \A c \in Calls :
    /\ start[c] # goal[c] /\ start[c] \in DOMAIN nodes /\ goal[c] \in DOMAIN nodes
       => pc[c] # "raised"
    /\ Searched(c)
       => /\ (path[c] = << >>) = ~Reachable(adj, start[c], goal[c])
          /\ (path[c] = << >>) = (cost[c] = Inf)

\* a search that expanded nodes, ran out of frontier and returned ([], inf)
C3_Witness ==
  \E c \in Calls :
    /\ Searched(c) /\ path[c] = << >> /\ cost[c] = Inf
    /\ Len(trace[c]) >= 2

----------------------------------------------------------------------------
(* C4 *)

\* C4: a call with start = goal returns [start] with cost 0 and never
\* pushes to or pops from the frontier, whatever the adjacency mapping.
C4_SameNodeShortCircuits ==
  \A c \in Calls :
    pc[c] # "idle" /\ start[c] = goal[c]
    => /\ Done(c)
       /\ path[c] = << start[c] >>
       /\ cost[c] = 0
       /\ open_heap[c] = << >> /\ trace[c] = << >> /\ g_score[c] = EmptyDict

\* start = goal on a node that has a self-loop and other outgoing edges
C4_Witness ==
  \E c \in Calls :
    /\ Done(c) /\ start[c] = goal[c] /\ path[c] = << start[c] >>
    /\ HopWeight(adj, start[c], start[c]) < Inf
    /\ Len(Neighbors(adj, start[c])[1]) > 1

----------------------------------------------------------------------------
(* C5 *)

SameQuery(c, d) == pc[c] # "idle" /\ pc[d] # "idle" /\ start[c] = start[d] /\ goal[c] = goal[d]

\* C5: two calls on the same graph with the same start and goal pop the
\* same entries in the same order and return the same path and cost; at no
\* pop is there a second frontier entry with the same (f, g, node), so no
\* order other than that of the tuples decides.
C5_SameQuerySameRun ==
  \A c \in Calls :
    /\ \A d \in Calls :
         SameQuery(c, d)
         => /\ \A i \in 1 .. Len(trace[c]) :
                 i <= Len(trace[d]) => trace[d][i] = trace[c][i]
            /\ Done(c) /\ Done(d) => path[c] = path[d] /\ cost[c] = cost[d]
    /\ \A i \in 1 .. Len(trace[c]) :
         LET it == trace[c][i]
         IN  \A j \in 1 .. Len(it.heap) :
               \/ j = Place(it)
               \/ <<it.heap[j].f, it.heap[j].g, it.heap[j].node>>
                    # <<it.entry.f, it.entry.g, it.entry.node>>

\* two calls with the same start and goal have both returned a route after
\* popping entries of equal f, one of them before the other began
C5_Witness ==
  \E c \in Calls : \E d \in Calls \ {c} :
    /\ SameQuery(c, d) /\ Done(c) /\ Done(d)
    /\ Len(path[c]) >= 3
    /\ \E i \in 1 .. Len(trace[c]) :
         \E j \in 1 .. Len(trace[c][i].heap) :
           j # Place(trace[c][i]) /\ trace[c][i].heap[j].f = trace[c][i].entry.f

----------------------------------------------------------------------------
(* C6 *)

\* the frontier entries that a loop iteration could have popped instead
Others(it) == {j \in 1 .. Len(it.heap) : it.heap[j] # it.entry}

\* C6 as stated: every pop takes an entry of least f, and among the entries
\* of equal f the one that was pushed first.
C6_FifoAmongEqualF ==
  \A c \in Calls : \A i \in 1 .. Len(trace[c]) :
    LET it == trace[c][i]
    IN  \A j \in Others(it) :
          \/ it.entry.f < it.heap[j].f
          \/ it.entry.f = it.heap[j].f /\ Place(it) < j

\* C6 amended: every pop takes an entry of least f; among the entries of
\* equal f the one of least g, and among those the one of the least node
\* identifier; the order of the pushes never decides.
C6_LeastGThenNodeAmongEqualF ==
  \A c \in Calls : \A i \in 1 .. Len(trace[c]) :
    LET it == trace[c][i]
    IN  \A j \in Others(it) :
          \/ it.entry.f < it.heap[j].f
          \/ it.entry.f = it.heap[j].f /\ it.entry.g < it.heap[j].g
          \/ /\ it.entry.f = it.heap[j].f /\ it.entry.g = it.heap[j].g
             /\ it.entry.node < it.heap[j].node

\* a pop that took the later-pushed of two entries of equal f
C6_Witness ==
  \E c \in Calls : \E i \in 1 .. Len(trace[c]) :
    LET it == trace[c][i]
    IN  \E j \in Others(it) : it.entry.f = it.heap[j].f /\ j < Place(it)

----------------------------------------------------------------------------
(* C7 *)

\* the iterations of call c that finalized node n: it was popped with a
\* cost that line 28 let through, so its parent link was written and, unless
\* it was the goal, it was closed and its neighbors were relaxed
Finalizations(c, n) ==
  {i \in 1 .. Len(trace[c]) : trace[c][i].kind # "stale" /\ trace[c][i].entry.node = n}

\* C7: no node is finalized twice in a run.
C7_FinalizedAtMostOnce ==
  \A c \in Calls : \A n \in NodeIds : Cardinality(Finalizations(c, n)) <= 1

\* C7, second half: once a node is closed its parent link never changes.
C7_ClosedParentIsFixed ==
  [][\A c \in Calls : \A n \in closed[c] :
       pc[c] = "loop" => DictGet(came_from'[c], n, None) = DictGet(came_from[c], n, None)]_vars

----------------------------------------------------------------------------
(* C8 *)

\* h is admissible and consistent towards the goal gl
AdmissibleAndConsistent(a, nds, gl) ==
  /\ \A n \in DOMAIN nds : Heuristic(nds, n, gl) <= TrueDist(a, n, gl)
  /\ ConsistentFor(a, nds, gl)

\* the goals that a search of astar used its heuristic towards (lines 17, 50)
Goals == {goal[c] : c \in {c \in Calls : Searched(c)}}

\* C8 as stated: on every graph that keeps the graph invariants, the
\* great-circle heuristic towards the goal of a search never exceeds the
\* true remaining cost and is consistent on every edge.
C8_AdmissibleOnEveryGraph ==
  GraphInvariants(adj, nodes) => \A gl \in Goals : AdmissibleAndConsistent(adj, nodes, gl)

\* every recorded length that build_and_save_graph keeps (it is > 0) is at
\* least the great-circle distance between the endpoints of its edge
LengthsCoverDistance(g, nds) ==
  \A i \in 1 .. Len(g) :
    g[i].length # None /\ g[i].length > 0
    => g[i].length >= calcDist(to_tuple(nds[g[i].u]), to_tuple(nds[g[i].v]))

\* C8 amended: the heuristic is admissible and consistent on the graph built
\* from every multigraph whose recorded positive lengths are at least the
\* great-circle distance between their endpoints (the other edges get
\* exactly that distance as their weight).
C8_AdmissibleWhenLengthsCoverDistance ==
  LengthsCoverDistance(G, nodes) => \A gl \in Goals : AdmissibleAndConsistent(adj, nodes, gl)

\* a search ran on such a graph with a fallback-weighted edge between nodes
\* at different coordinates and a recorded length on another edge
C8_Witness ==
  /\ LengthsCoverDistance(G, nodes)
  /\ \E i \in 1 .. Len(G) : G[i].length = None /\ nodes[G[i].u].lat # nodes[G[i].v].lat
  /\ \E i \in 1 .. Len(G) : G[i].length # None /\ G[i].length > 0
  /\ \E c \in Calls : Searched(c) /\ Len(path[c]) >= 3 /\ Heuristic(nodes, start[c], goal[c]) > 0

----------------------------------------------------------------------------
(* C9 *)

\* C9: a call whose start or goal is not in the node table raises; it
\* never returns, so no returned path holds an unknown identifier.
C9_UnknownNodeRaises ==
  \A c \in Calls :
    /\ pc[c] # "idle" /\ (start[c] \notin DOMAIN nodes \/ goal[c] \notin DOMAIN nodes)
       => pc[c] = "raised"
    /\ Done(c) => \A i \in 1 .. Len(path[c]) : path[c][i] \in DOMAIN nodes

----------------------------------------------------------------------------
(* C10 *)

\* C10: no step of astar, of the nearest-node lookup or of build_directions
\* changes the adjacency mapping, the node table or the multigraph.
C10_GraphIsReadOnly ==
  [][adj' = adj /\ nodes' = nodes /\ G' = G]_vars

\* a narrated route whose search looked up the neighbors of a node that
\* has no adjacency entry
C10_Witness ==
  \E c \in Calls :
    /\ pc[c] = "shown" /\ steps[c] # << >>
    /\ \E i \in 1 .. Len(trace[c]) :
         trace[c][i].kind = "expand" /\ trace[c][i].entry.node \notin DOMAIN adj

----------------------------------------------------------------------------
(* C11 *)

\* the run of call c so far is the beginning of the run of the same call
\* made alone
IsPrefix(t, u) == Len(t) <= Len(u) /\ \A i \in 1 .. Len(t) : t[i] = u[i]

\* C11: in every interleaving of the steps of two astar calls on the same
\* adjacency mapping and node table, each call pops what it pops when it
\* runs alone and returns exactly the path and the cost it returns alone.
C11_InterleavedAsAlone ==
  \A c \in Calls :
    pc[c] \in {"loop", "returned", "shown"}
    /\ start[c] \in DOMAIN nodes /\ goal[c] \in DOMAIN nodes
    => LET alone == astar(adj, nodes, start[c], goal[c], eps)
       IN  /\ IsPrefix(trace[c], alone.trace)
           /\ Done(c) => path[c] = alone.path /\ cost[c] = alone.cost

\* two calls for different routes are both in the middle of their searches,
\* each with nodes closed and entries waiting in its own frontier
C11_Witness ==
  \E c \in Calls : \E d \in Calls \ {c} :
    /\ pc[c] = "loop" /\ pc[d] = "loop"
    /\ <<start[c], goal[c]>> # <<start[d], goal[d]>>
    /\ closed[c] # {} /\ closed[d] # {} /\ closed[c] # closed[d]
    /\ open_heap[c] # << >> /\ open_heap[d] # << >>

----------------------------------------------------------------------------
(* C12 *)

\* C12: every edge of the multigraph is stored with its recorded length
\* when that is present and > 0 and with the great-circle distance between
\* its endpoints otherwise, and so every weight of the adjacency mapping
\* and of the edge list is finite and strictly positive.
C12_WeightsFinitePositive ==
  LET edges == BuildEdges(G, nodes)
  IN  /\ \A i \in 1 .. Len(G) :
           edges[i][3] = IF G[i].length # None /\ G[i].length > 0
                         THEN G[i].length
                         ELSE calcDist(to_tuple(nodes[G[i].u]), to_tuple(nodes[G[i].v]))
      /\ \A i \in 1 .. Len(edges) : 0 < edges[i][3] /\ edges[i][3] < Inf
      /\ \A u \in DOMAIN adj : \A k \in 1 .. Len(adj[u]) :
           0 < adj[u][k][2] /\ adj[u][k][2] < Inf

----------------------------------------------------------------------------
(* C13 *)

\* the distance of node n of the table nds to the point (lat, 0)
DistTo(nds, n, lat) == calcDist(<<lat, 0>>, to_tuple(nds[n]))

\* n is a node of least distance to (lat, 0), and the first such node in
\* the order of the node table
NearestFirst(nds, n, lat) ==
  /\ n \in DOMAIN nds
  /\ \A m \in DOMAIN nds : DistTo(nds, n, lat) <= DistTo(nds, m, lat)
  /\ \A m \in DOMAIN nds : DistTo(nds, m, lat) = DistTo(nds, n, lat) => n <= m

\* the calls whose start and goal the caller looked up from coordinates
Located(c) == pc[c] # "idle" /\ coords[c] # <<None, None>>

\* C13: nearest_node_by_coord returns a node at the least distance from the
\* given point, and of several such nodes the first of the node table: for
\* every point the caller may give (looked up before any call; the node
\* table never changes), and for the start and the goal of every call that
\* was made from coordinates.
C13_NearestAndFirst ==
  /\ (\A c \in Calls : pc[c] = "idle")
     => \A lat \in Probes :
          NearestFirst(nodes, nearest_node_by_coord(nodes, lat, 0), lat)
  /\ \A c \in Calls :
       Located(c) => /\ NearestFirst(nodes, start[c], coords[c][1])
                     /\ NearestFirst(nodes, goal[c], coords[c][2])

\* a call made from coordinates whose goal point is at the same least
\* distance, which is not 0, from two nodes or more, and whose start is
\* another node
C13_Witness ==
  \E c \in Calls :
    /\ Located(c) /\ start[c] # goal[c]
    /\ DistTo(nodes, goal[c], coords[c][2]) > 0
    /\ \E m \in DOMAIN nodes \ {goal[c]} :
         DistTo(nodes, m, coords[c][2]) = DistTo(nodes, goal[c], coords[c][2])

----------------------------------------------------------------------------
(* C14 *)

\* C14 as stated: the lookup with exactly the coordinates of a node n
\* returns n.
C14_ExactMatchReturnsThatNode ==
  \A n \in DOMAIN nodes :
    nearest_node_by_coord(nodes, nodes[n].lat, nodes[n].lon) = n

\* C14 amended: the lookup with exactly the coordinates of a node n returns
\* a node at distance 0, the first node of the table at these coordinates;
\* that is n when no earlier node of the table has the coordinates of n.
\* It is stated for a lookup before any call (the node table never changes)
\* and for the goal of every call that was made from coordinates.
C14_ExactMatchReturnsFirstAtPoint ==
  /\ (\A c \in Calls : pc[c] = "idle")
     => \A n \in DOMAIN nodes :
          LET m == nearest_node_by_coord(nodes, nodes[n].lat, nodes[n].lon)
          IN  /\ m \in DOMAIN nodes
              /\ DistTo(nodes, m, nodes[n].lat) = 0
              /\ to_tuple(nodes[m]) = to_tuple(nodes[n])
              /\ m <= n
              /\ (\A k \in DOMAIN nodes :
                    k < n => to_tuple(nodes[k]) # to_tuple(nodes[n]))
                 => m = n
  /\ \A c \in Calls : \A n \in DOMAIN nodes :
       Located(c) /\ coords[c][2] = nodes[n].lat
       => nodes[goal[c]].lat = nodes[n].lat /\ goal[c] <= n

\* a call made from coordinates: its goal point is exactly the position of a
\* node that the lookup did not return, and of the node that it returned
C14_Witness ==
  \E c \in Calls : \E n \in DOMAIN nodes :
    /\ Located(c) /\ start[c] # goal[c]
    /\ coords[c][2] = nodes[n].lat /\ goal[c] # n
    /\ nodes[goal[c]].lat = coords[c][2]

----------------------------------------------------------------------------
(* C15 *)

\* C15: build_directions returns the empty list, without the start and the
\* arrival marker, for the empty path (which stands for None too) and for
\* every path of a single node, whatever the metadata graph is; so does
\* every narration of a returned path of fewer than two nodes.
C15_ShortPathNoSteps ==
  /\ \A g \in Metadata :
       /\ build_directions(<< >>, nodes, g, "Xuat phat", "Dich") = << >>
       /\ \A n \in Ids : build_directions(<< n >>, nodes, g, "Xuat phat", "Dich") = << >>
  /\ \A c \in Calls :
       pc[c] = "shown" /\ Len(path[c]) < 2
       => steps[c] = << >> /\ segs[c] = << >> /\ merged[c] = << >>

\* the narration of a single-node path, of a node that has outgoing edges
\* in the metadata graph it was given
C15_Witness ==
  \E c \in Calls :
    /\ pc[c] = "shown" /\ Len(path[c]) = 1 /\ steps[c] = << >>
    /\ \E i \in 1 .. Len(meta[c].edges) : meta[c].edges[i].u = path[c][1]

----------------------------------------------------------------------------
(* C16 *)

\* the signed smallest difference b2 - b1 of two bearings, in [-180, 180)
SignedDelta(b1, b2) ==
  LET x == (b2 - b1) % 360 IN IF x >= 180 THEN x - 360 ELSE x

\* a narration of at least one hop
Narrated(c) == pc[c] = "shown" /\ segs[c] # << >>

\* the hops that start a new segment: the name differs from that of the hop
\* before, or its bearing is 20 degrees or more from that of the hop before
\* (the latest hop of the current segment)
Breaks(sgs) ==
  {k \in 2 .. Len(sgs) :
     ~ (sgs[k].name = sgs[k - 1].name
        /\ Abs(SignedDelta(sgs[k - 1].brg, sgs[k].brg)) < 20)}

\* the merged segment that hop k belongs to
SegmentOf(sgs, k) == 1 + Cardinality({b \in Breaks(sgs) : b <= k})

RECURSIVE SumDist(_, _)
SumDist(sgs, K) ==
  IF K = {} THEN 0
  ELSE LET k == CHOOSE x \in K : TRUE IN sgs[k].dist + SumDist(sgs, K \ {k})

\* C16: a hop is merged into the current segment exactly when it has the
\* segment's name and its bearing is strictly less than 20 degrees from
\* the bearing of the segment's latest hop; so the merged segments are the
\* runs of hops between the breaks, each with the sum of the distances of
\* its hops, the name of its hops and the bearing of its last hop.
C16_MergedAreRunsBelow20 ==
  \A c \in Calls :
    Narrated(c)
    => LET sgs == segs[c]
           hops(j) == {k \in 1 .. Len(sgs) : SegmentOf(sgs, k) = j}
           last(j) == CHOOSE k \in hops(j) : \A x \in hops(j) : x <= k
       IN  /\ Len(merged[c]) = Cardinality(Breaks(sgs)) + 1
           /\ \A j \in 1 .. Len(merged[c]) :
                /\ merged[c][j].dist = SumDist(sgs, hops(j))
                /\ merged[c][j].brg = sgs[last(j)].brg
                /\ \A k \in hops(j) : merged[c][j].name = sgs[k].name

\* three hops of one street: the second, 19 degrees off the first, was
\* merged; the third, exactly 20 degrees off the second, began a segment
C16_Witness ==
  \E c \in Calls :
    /\ Narrated(c) /\ Len(segs[c]) = 3
    /\ segs[c][1].name = segs[c][2].name /\ segs[c][2].name = segs[c][3].name
    /\ Abs(SignedDelta(segs[c][1].brg, segs[c][2].brg)) = 19
    /\ Abs(SignedDelta(segs[c][2].brg, segs[c][3].brg)) = 20
    /\ Len(merged[c]) = 2 /\ merged[c][1].dist = 3 /\ merged[c][2].dist = 4

----------------------------------------------------------------------------
(* C17 *)

Slight == {"Re nhe phai", "Re nhe trai"}
Sharp == {"Re phai", "Re trai"}
Rightward == {"Re nhe phai", "Re phai"}
Leftward == {"Re nhe trai", "Re trai"}

\* the word w is the one that the claim gives to the signed delta d
Classified(w, d) ==
  /\ w \in {"Di thang", "Quay dau"} \cup Slight \cup Sharp
  /\ (w = "Di thang") = (Abs(d) < 15)
  /\ (w \in Slight) = (15 <= Abs(d) /\ Abs(d) < 45)
  /\ (w \in Sharp) = (45 <= Abs(d) /\ Abs(d) < 135)
  /\ (w = "Quay dau") = (Abs(d) >= 135)
  /\ w \in Rightward => d > 0
  /\ w \in Leftward => d < 0

\* C17: the instruction for the transition between two consecutive merged
\* segments with signed bearing delta d is 'continue straight' iff
\* |d| < 15, a slight turn iff 15 <= |d| < 45, a turn iff 45 <= |d| < 135
\* and a U-turn iff |d| >= 135, to the right for d > 0 and to the left for
\* d < 0; and every d of the range -180..179 gets exactly one of them.
C17_TurnWords ==
  /\ \A c \in Calls :
       Narrated(c)
       => \A i \in 1 .. Len(merged[c]) - 1 :
            Classified(steps[c][i + 2].instruction[1],
                       SignedDelta(merged[c][i].brg, merged[c][i + 1].brg))
  /\ \A c \in Calls :
       pc[c] = "segmented" /\ Len(segs[c]) = 1
       => \A d \in (0 - 180) .. 179 : Classified(Turn(d), d)

\* a narration with a U-turn at exactly -135 degrees followed by a slight
\* right turn at exactly 15 degrees
C17_Witness ==
  \E c \in Calls :
    /\ Narrated(c) /\ Len(merged[c]) = 3
    /\ SignedDelta(merged[c][1].brg, merged[c][2].brg) = 0 - 135
    /\ SignedDelta(merged[c][2].brg, merged[c][3].brg) = 15
    /\ steps[c][3].instruction[1] = "Quay dau"
    /\ steps[c][4].instruction[1] = "Re nhe phai"

----------------------------------------------------------------------------
(* C18 *)

\* C18: the instruction list of a path of at least two nodes has as many
\* steps as there are merged segments plus two: the start marker with
\* distance 0, one instruction for each merged segment in path order, the
\* first of them 'follow <name>' without a turn word, and the arrival
\* marker with distance 0; the ordinals are 1, 2, ..., n.
C18_MarkersAndOnePerSegment ==
  \A c \in Calls :
    Narrated(c)
    => LET n == Len(steps[c])
           m == Len(merged[c])
       IN  /\ n = m + 2
           /\ \A k \in 1 .. n : steps[c][k].step = k
           /\ steps[c][1].instruction[1] = "Bat dau tai" /\ steps[c][1].distance_m = 0
           /\ steps[c][n].instruction[1] = "Den noi" /\ steps[c][n].distance_m = 0
           /\ steps[c][2].instruction[1] = "Di theo"
           /\ \A j \in 1 .. m :
                /\ steps[c][j + 1].instruction[2] = fmt_name(merged[c][j].name)
                /\ steps[c][j + 1].distance_m = merged[c][j].dist
                /\ j > 1 => steps[c][j + 1].instruction[1]
                               \in {"Di thang", "Quay dau"} \cup Slight \cup Sharp

\* three hops narrated as two segments: two hops were merged into one
C18_Witness ==
  \E c \in Calls :
    /\ Narrated(c) /\ Len(segs[c]) = 3 /\ Len(merged[c]) = 2
    /\ Len(steps[c]) = 4 /\ steps[c][4].step = 4

----------------------------------------------------------------------------
(* C19 *)

\* the data that the metadata graph of call c has for the i-th hop of its
\* path (none when there is no graph)
HopData(c, i) == get_edge_data(meta[c], path[c][i], path[c][i + 1])

\* the great-circle estimate of the length of the i-th hop
Estimate(c, i) == calcDist(to_tuple(nodes[path[c][i]]), to_tuple(nodes[path[c][i + 1]]))

\* the i-th hop has no edge data: there is no graph, or no edge in it
NoData(c, i) == HopData(c, i) = << >>
\* it has edge data, but no name
Unnamed(c, i) ==
  ~NoData(c, i) /\ \A k \in 1 .. Len(HopData(c, i)) : HopData(c, i)[k].name = ""
\* it has edge data, but no length
Unmeasured(c, i) ==
  ~NoData(c, i) /\ \A k \in 1 .. Len(HopData(c, i)) : HopData(c, i)[k].length = None

\* the narration of a path of two nodes or more is complete
Complete(c) ==
  /\ Len(segs[c]) = Len(path[c]) - 1
  /\ Len(steps[c]) = Len(merged[c]) + 2
  /\ steps[c][1].instruction[1] = "Bat dau tai"
  /\ steps[c][Len(steps[c])].instruction[1] = "Den noi"
  /\ \A j \in 1 .. Len(merged[c]) :
       (steps[c][j + 1].instruction[2] = "duong noi bo") = (merged[c][j].name = "")

\* a narrated route of two nodes or more, all of the node table
Routed(c) ==
  /\ pc[c] = "shown" /\ Len(path[c]) >= 2
  /\ \A i \in 1 .. Len(path[c]) : path[c][i] \in DOMAIN nodes

\* C19 as stated: the narration is complete, and every hop without edge
\* data, without a name or without a length is both unnamed (and so
\* labelled 'duong noi bo') and as long as the great-circle estimate.
C19_GenericLabelAndEstimate ==
  \A c \in Calls :
    Routed(c)
    => /\ Complete(c)
       /\ \A i \in 1 .. Len(path[c]) - 1 :
            NoData(c, i) \/ Unnamed(c, i) \/ Unmeasured(c, i)
            => segs[c][i].name = "" /\ segs[c][i].dist = Estimate(c, i)

\* C19 amended: the narration is complete; a hop without edge data is
\* unnamed and as long as the estimate; a hop whose edges have no name is
\* unnamed but keeps a recorded length; a hop whose edges have no length is
\* as long as the estimate but keeps a name of its edges; an unnamed
\* segment, and only such a segment, is labelled 'duong noi bo'.
C19_LabelAndEstimateEachForItsGap ==
  \A c \in Calls :
    Routed(c)
    => /\ Complete(c)
       /\ \A i \in 1 .. Len(path[c]) - 1 :
            LET data == HopData(c, i)
            IN  /\ NoData(c, i) => segs[c][i].name = "" /\ segs[c][i].dist = Estimate(c, i)
                /\ Unnamed(c, i) => segs[c][i].name = ""
                /\ Unmeasured(c, i) => segs[c][i].dist = Estimate(c, i)
                /\ ~NoData(c, i)
                   => \E k \in 1 .. Len(data) :
                        /\ segs[c][i].name = data[k].name
                        /\ segs[c][i].dist = IF data[k].length = None
                                             THEN Estimate(c, i) ELSE data[k].length

\* a narrated route with a hop that the metadata graph has no edge for and
\* a hop of a named street without a length, between nodes at different
\* latitudes
C19_Witness ==
  \E c \in Calls :
    /\ Routed(c) /\ meta[c].loaded
    /\ \E i \in 1 .. Len(path[c]) - 1 : NoData(c, i) /\ Estimate(c, i) > 0
    /\ \E i \in 1 .. Len(path[c]) - 1 :
         Unmeasured(c, i) /\ segs[c][i].name # "" /\ Estimate(c, i) > 0

----------------------------------------------------------------------------
(* C20 *)

\* the edges of the multigraph from u to v
Parallel(u, v) == {k \in 1 .. Len(G) : G[k].u = u /\ G[k].v = v}

\* C20: for every hop u -> v of a narrated route that has several edges in
\* the multigraph, the name and the length that build_directions uses are
\* those of an edge of least weight, the weight that astar used for the hop.
C20_MinWeightEdgeIsAuthoritative ==
  \A c \in Calls :
    Routed(c) /\ meta[c] = Loaded(G)
    => \A i \in 1 .. Len(path[c]) - 1 :
         LET u == path[c][i]
             v == path[c][i + 1]
             w == HopWeight(adj, u, v)
         IN  Cardinality(Parallel(u, v)) >= 2
             => /\ segs[c][i].dist = w
                /\ \E k \in Parallel(u, v) :
                     EdgeWeight(G[k], nodes) = w /\ segs[c][i].name = G[k].name

----------------------------------------------------------------------------
(* C21 *)

\* the next pop of call c returns an entry whose g is worse than the best
\* cost recorded for its node
PopsWorse(c) ==
  /\ pc[c] = "loop" /\ open_heap[c] # << >>
  /\ Top(c).g > DictGet(g_score[c], Top(c).node, Inf)

\* an iteration of the loop of call c is made in this step
Iterates(c) == trace'[c] # trace[c]

\* C21: an iteration that pops an entry whose g is worse than the best cost
\* recorded for its node only removes that entry from the heap: g_score,
\* came_from and closed are unchanged, the other heap entries stay and
\* nothing is pushed.
C21_WorsePopOnlyRemoves ==
  [][\A c \in Calls :
       PopsWorse(c) /\ Iterates(c)
       => /\ g_score'[c] = g_score[c]
          /\ came_from'[c] = came_from[c]
          /\ closed'[c] = closed[c]
          /\ open_heap'[c] = Remove(open_heap[c], HeapMin(open_heap[c]))]_vars

----------------------------------------------------------------------------
(* C22 *)

\* the costs of the paths from n to t that avoid the nodes in seen, each hop
\* over any of the parallel entries
RECURSIVE PathCosts(_, _, _, _)
PathCosts(a, n, t, seen) ==
  IF n = t THEN {0}
  ELSE LET nbrs == DictGet(a, n, << >>)
           onward == {k \in 1 .. Len(nbrs) : nbrs[k][1] \notin seen \cup {n}}
       IN  UNION {{FAdd(nbrs[k][2], x) :
                     x \in PathCosts(a, nbrs[k][1], t, seen \cup {n})} : k \in onward}

\* every recorded g_score of call c is the cost of a path from its start
GScoresArePathCosts(c) ==
  \A n \in DOMAIN g_score[c] :
    /\ g_score[c][n] \in PathCosts(adj, start[c], n, {})
    /\ g_score[c][n] >= TrueDist(adj, start[c], n)

\* the adjacency entries of current that improve on the cost recorded for
\* their node when their turn comes: the node is not closed, the cost through
\* current is below the cost recorded before the iteration, and below the
\* cost through every earlier parallel entry
Improving(nbrs, gcur, gs, cl) ==
  {k \in 1 .. Len(nbrs) :
     /\ nbrs[k][1] \notin cl
     /\ FAdd(gcur, nbrs[k][2]) < DictGet(gs, nbrs[k][1], Inf)
     /\ \A j \in 1 .. k - 1 : nbrs[j][1] = nbrs[k][1] => nbrs[k][2] < nbrs[j][2]}

\* the i-th smallest element of the set K of numbers
Nth(K, i) == CHOOSE k \in K : Cardinality({j \in K : j < k}) = i - 1

\* the step pushes, for call c, exactly one entry for each improving
\* adjacency entry of the popped node, in the order of the adjacency list
PushesTheImproving(c) ==
  LET current == Top(c).node
      nbrs == DictGet(adj, current, << >>)
      gcur == DictGet(g_score[c], current, Inf)
      K == Improving(nbrs, gcur, g_score[c], closed'[c])
      rest == Remove(open_heap[c], HeapMin(open_heap[c]))
  IN  /\ Len(open_heap'[c]) = Len(rest) + Cardinality(K)
      /\ \A i \in 1 .. Len(rest) : open_heap'[c][i] = rest[i]
      /\ \A i \in 1 .. Cardinality(K) :
           LET k == Nth(K, i)
               g == FAdd(gcur, nbrs[k][2])
           IN  open_heap'[c][Len(rest) + i] =
                 Entry(FAdd(g, Heuristic(nodes, nbrs[k][1], goal[c])),
                       g, nbrs[k][1], current)

\* what one step may do to the g_score of a running call c
RelaxationStep(c) ==
  /\ \A n \in DOMAIN g_score[c] :
       /\ n \in DOMAIN g_score'[c]
       /\ g_score'[c][n] <= g_score[c][n]
       /\ n \in closed[c] => g_score'[c][n] = g_score[c][n]
  /\ \A n \in closed'[c] : n \in DOMAIN g_score[c] /\ g_score'[c][n] = g_score[c][n]
  /\ Iterates(c)
     => IF IsStale(Top(c), g_score[c], eps) \/ Top(c).node = goal[c]
        THEN /\ g_score'[c] = g_score[c]
             /\ open_heap'[c] = Remove(open_heap[c], HeapMin(open_heap[c]))
        ELSE /\ PushesTheImproving(c)
             /\ \A n \in DOMAIN g_score'[c] :
                  \/ n \in DOMAIN g_score[c] /\ g_score'[c][n] = g_score[c][n]
                  \/ \E i \in 1 .. Len(open_heap'[c]) :
                       /\ i >= Len(open_heap[c])
                       /\ open_heap'[c][i].node = n
                       /\ open_heap'[c][i].g = g_score'[c][n]

\* C22: every recorded g_score is the cost of a path from start to its node
\* (so never below the least cost); a g_score only decreases; the g_score of
\* a closed node never changes; and an iteration pushes the entry
\* (f, g, n, parent) exactly for the adjacency entries (n, w) of the popped
\* node parent for which g_score[parent] + w strictly improves g_score[n]
\* with n not closed.
C22_RelaxationInvariant ==
  /\ [](\A c \in Calls : pc[c] # "idle" /\ start[c] \in DOMAIN nodes
                           => GScoresArePathCosts(c))
  /\ [][\A c \in Calls : pc[c] = "loop" => RelaxationStep(c)]_vars

\* a node was closed, a recorded cost was lowered (the frontier holds an
\* entry of the older, higher cost) and a third node was reached
C22_Witness ==
  \E c \in Calls :
    /\ pc[c] = "loop" /\ closed[c] # {}
    /\ Cardinality(DOMAIN g_score[c]) >= 3
    /\ \E i \in 1 .. Len(open_heap[c]) :
         open_heap[c][i].g > g_score[c][open_heap[c][i].node] + eps

----------------------------------------------------------------------------
(* C23 *)

Measured == delta # None

\* d is congruent to b2 - b1 modulo 360 degrees
Congruent(d, b1, b2) == (d - (b2 - b1)) % Degrees(360) = 0

\* b2 is the exact reversal of b1
Reversal(b1, b2) == Abs(b2 - b1) = Degrees(180)

\* C23 as stated: for all bearings b1, b2 of [0, 360), _delta_bearing
\* returns a d with -180 <= d < 180 that is congruent to b2 - b1 modulo 360;
\* an exact reversal yields -180, which is classified as a U-turn.
C23_HalfOpenRangeAndCongruent ==
  Measured
  => /\ 0 - Degrees(180) <= delta /\ delta < Degrees(180)
     /\ Congruent(delta, brgs[1], brgs[2])
     /\ Reversal(brgs[1], brgs[2])
        => delta = 0 - Degrees(180) /\ Turn(0 - 180) = "Quay dau"

\* C23 amended: -180 <= d <= 180; d is congruent to b2 - b1 modulo 360
\* whenever no operation of the function rounds, and otherwise within four
\* units of a number that is; d is 180 only when b2 - b1 + 180.0 is
\* negative and its remainder is rounded up to 360.0; an exact reversal
\* yields -180, and both -180 and 180 are classified as a U-turn.
C23_ClosedRangeAndNearlyCongruent ==
  Measured
  => LET b1 == brgs[1]
         b2 == brgs[2]
         exact == /\ IsFloat(b2 - b1)
                  /\ IsFloat(b2 - b1 + Degrees(180))
                  /\ b2 - b1 + Degrees(180) >= 0
                     \/ IsFloat(((b2 - b1 + Degrees(180)) % Degrees(360)))
     IN  /\ 0 - Degrees(180) <= delta /\ delta <= Degrees(180)
         /\ exact => Congruent(delta, b1, b2) /\ delta < Degrees(180)
         /\ \E e \in -4 .. 4 : Congruent(delta + e, b1, b2)
         /\ delta = Degrees(180) => Round(b2 - b1) + Degrees(180) < 0
         /\ Reversal(b1, b2) => delta = 0 - Degrees(180)
         /\ Turn(0 - 180) = "Quay dau" /\ Turn(180) = "Quay dau"

\* a call that returned 180: b1 is the float next above b2 + 180
C23_Witness ==
  /\ Measured /\ delta = Degrees(180)
  /\ brgs[1] = brgs[2] + Degrees(180) + 1

----------------------------------------------------------------------------
(* C24 *)

\* the node that k came_from links lead to from n (n itself where the links
\* end earlier)
RECURSIVE Ancestor(_, _, _)
Ancestor(cf, n, k) ==
  IF k = 0 \/ n \notin DOMAIN cf THEN n ELSE Ancestor(cf, cf[n], k - 1)

\* the links of cf lead from every node to a node without a link: no cycle
Acyclic(cf) ==
  \A n \in DOMAIN cf : Ancestor(cf, n, Cardinality(DOMAIN cf)) \notin DOMAIN cf

\* p is a route of the adjacency mapping a from s to t
WellFormed(a, p, s, t) ==
  /\ p[1] = s /\ p[Len(p)] = t
  /\ \A i, j \in 1 .. Len(p) : i # j => p[i] # p[j]
  /\ \A i \in 1 .. Len(p) - 1 :
       /\ p[i] \in DOMAIN a
       /\ \E k \in 1 .. Len(a[p[i]]) : a[p[i]][k][1] = p[i + 1]

\* C24: every non-empty path that astar returns begins with start, ends
\* with goal, contains no node twice and goes over entries of the adjacency
\* lists; in every state of a call came_from has no link for start and no
\* cycle, and every link is an entry of the adjacency list of the parent, so
\* the walk that rebuilds the path stops at start.
C24_WellFormedRoute ==
  \A c \in Calls :
    pc[c] # "idle"
    => /\ start[c] \notin DOMAIN came_from[c]
       /\ Acyclic(came_from[c])
       /\ \A n \in DOMAIN came_from[c] :
            /\ came_from[c][n] \in DOMAIN adj
            /\ \E k \in 1 .. Len(adj[came_from[c][n]]) : adj[came_from[c][n]][k][1] = n
            /\ Ancestor(came_from[c], n, Cardinality(DOMAIN came_from[c])) = start[c]
       /\ Done(c) /\ path[c] # << >>
          => WellFormed(adj, path[c], start[c], goal[c])

\* a returned route of two hops, rebuilt from links of which one is not
\* on the route
C24_Witness ==
  \E c \in Calls :
    /\ Done(c) /\ Len(path[c]) = 3
    /\ WellFormed(adj, path[c], start[c], goal[c])
    /\ \E n \in DOMAIN came_from[c] : \A i \in 1 .. Len(path[c]) : path[c][i] # n

----------------------------------------------------------------------------
(* C25 *)

\* the number of entries of the adjacency lists
RECURSIVE AdjEntries(_, _)
AdjEntries(a, S) ==
  IF S = {} THEN 0
  ELSE LET u == CHOOSE x \in S : TRUE
       IN  Len(a[u]) + AdjEntries(a, S \ {u})

\* the number of entries that call c has pushed so far: those it has
\* popped, one in each iteration, and those still on the frontier
Pushed(c) == Len(trace[c]) + Len(open_heap[c])

\* C25: a call of astar with start and goal in the node table that is in
\* its loop eventually returns, and it never has pushed more than 1 plus the
\* number of adjacency entries on its frontier.
C25_ReturnsWithBoundedPushes ==
  /\ [](\A c \in Calls : Pushed(c) <= 1 + AdjEntries(adj, DOMAIN adj))
  /\ \A c \in Calls : (pc[c] = "loop") ~> Done(c)

\* a call returned a path on a graph with an edge of weight zero on a
\* cycle, both ends of which it has closed, after it pushed four entries or
\* more
C25_Witness ==
  \E c \in Calls :
    /\ Done(c) /\ path[c] # << >>
    /\ Pushed(c) >= 4
    /\ \E u \in DOMAIN adj : \E k \in 1 .. Len(adj[u]) :
         /\ adj[u][k][2] = 0
         /\ Reachable(adj, adj[u][k][1], u)
         /\ {u, adj[u][k][1]} \subseteq closed[c]

----------------------------------------------------------------------------
(* C26 *)

\* the sum of distance_m over the steps stps
RECURSIVE SumSteps(_, _)
SumSteps(stps, k) ==
  IF k = 0 THEN 0 ELSE stps[k].distance_m + SumSteps(stps, k - 1)

\* the distances of the hops a .. b, added from the left as floats
RECURSIVE AddedUp(_, _, _)
AddedUp(sgs, a, b) ==
  IF a = b THEN sgs[a].dist ELSE float_add(AddedUp(sgs, a, b - 1), sgs[b].dist)

\* no addition of the merge of sgs rounds
NoRounding(sgs) ==
  \A a, b \in 1 .. Len(sgs) :
    a <= b /\ SegmentOf(sgs, a) = SegmentOf(sgs, b)
    => AddedUp(sgs, a, b) = SumDist(sgs, a .. b)

\* C26 as stated: the sum of distance_m over the steps equals the sum of
\* the lengths of the raw hops.
C26_DistanceConserved ==
  \A c \in Calls :
    Narrated(c) => SumSteps(steps[c], Len(steps[c])) = SumDist(segs[c], 1 .. Len(segs[c]))

\* C26 amended: every hop belongs to exactly one merged segment; the
\* distance of a merged segment is that of its hops added from the left,
\* each addition rounded to a float; the steps carry 0, the distances of
\* the merged segments in order, and 0; so the two sums are equal whenever
\* no addition rounds.
C26_DistanceConservedUpToRounding ==
  \A c \in Calls :
    Narrated(c)
    => LET sgs == segs[c]
           hops(j) == {k \in 1 .. Len(sgs) : SegmentOf(sgs, k) = j}
           first(j) == CHOOSE k \in hops(j) : \A x \in hops(j) : k <= x
           last(j) == CHOOSE k \in hops(j) : \A x \in hops(j) : x <= k
       IN  /\ \A k \in 1 .. Len(sgs) : SegmentOf(sgs, k) \in 1 .. Len(merged[c])
           /\ \A j \in 1 .. Len(merged[c]) :
                /\ hops(j) = first(j) .. last(j)
                /\ merged[c][j].dist = AddedUp(sgs, first(j), last(j))
                /\ steps[c][j + 1].distance_m = merged[c][j].dist
           /\ Len(steps[c]) = Len(merged[c]) + 2
           /\ steps[c][1].distance_m = 0
           /\ steps[c][Len(steps[c])].distance_m = 0
           /\ NoRounding(sgs)
              => SumSteps(steps[c], Len(steps[c])) = SumDist(sgs, 1 .. Len(sgs))

\* three hops in two merged segments; the addition that merged two of them
\* was rounded
C26_Witness ==
  \E c \in Calls :
    /\ Narrated(c) /\ Len(segs[c]) = 3 /\ Len(merged[c]) = 2
    /\ ~ NoRounding(segs[c])
    /\ SumSteps(steps[c], Len(steps[c])) # SumDist(segs[c], 1 .. Len(segs[c]))

----------------------------------------------------------------------------
(* C27 *)

\* C27: when build_directions is run with the multigraph that the adjacency
\* mapping was built from, on the path that astar returned, the sum of
\* distance_m over the steps equals the cost that astar returned.
C27_NarratedDistanceIsCost ==
  \A c \in Calls :
    Routed(c) /\ Narrated(c) /\ meta[c] = Loaded(G)
    => SumSteps(steps[c], Len(steps[c])) = cost[c]

----------------------------------------------------------------------------
(* C28 *)

\* the first raw hop of the merged segment j of sgs
FirstHop(sgs, j) ==
  CHOOSE k \in 1 .. Len(sgs) :
    SegmentOf(sgs, k) = j /\ \A x \in 1 .. Len(sgs) : SegmentOf(sgs, x) = j => k <= x

\* C28: the turn word of the instruction that enters a merged segment is
\* that of the bearing delta between the last raw hop of the previous
\* merged segment and the first raw hop of the segment entered, whatever
\* the bearings of the hops merged into the segment after its first.
C28_TurnMeasuredAtJunction ==
  \A c \in Calls :
    Narrated(c)
    => \A j \in 2 .. Len(merged[c]) :
         LET k == FirstHop(segs[c], j)
         IN  steps[c][j + 1].instruction[1]
               = Turn(delta_bearing(segs[c][k - 1].brg, segs[c][k].brg))

----------------------------------------------------------------------------
(* C29 *)

----------------------------------------------------------------------------
(* C30 *)

\* C30: the download methods are tried in the order 'all', custom filter,
\* 'all_private', each one only after the one before raised, and none
\* after a success; the graph used and written is that of the first
\* success; RuntimeError is raised only when all three raised, and then
\* the pickle files are as they were; when no download is forced and the
\* four pickle files exist, nothing is downloaded and no file is written.
C30_DownloadFallback ==
  LET t == dl.tried
      n == Len(t)
      needed == dl.force_download \/ \E f \in Files : dl.before[f] = "absent"
  IN  /\ n <= 3
      /\ \A i \in 1 .. n : t[i].method = Methods[i]
      /\ \A i \in 1 .. n - 1 : ~ t[i].ok
      /\ dl.G # "none" <=> (n > 0 /\ t[n].ok)
      /\ dl.G # "none" => dl.G = t[n].method
      /\ dl.error = "RuntimeError" <=> dl.pc = "raised"
      /\ dl.pc = "raised"
         => /\ n = 3 /\ \A i \in 1 .. 3 : ~ t[i].ok
            /\ dl.files = dl.before
      /\ n = 3 /\ ~ t[3].ok => dl.pc = "raised"
      /\ dl.files # dl.before => dl.pc = "returned" /\ dl.G # "none"
      /\ dl.pc = "returned" /\ needed => \A f \in Files : dl.files[f] = dl.G
      /\ dl.pc = "returned" /\ needed => dl.G # "none"
      /\ ~ needed => n = 0 /\ dl.files = dl.before /\ dl.pc \in {"start", "returned"}

\* a forced download over four existing pickles whose first two methods
\* raised: the files hold the graph of 'all_private'
C30_Witness ==
  /\ dl.pc = "returned" /\ dl.force_download
  /\ \A f \in Files : dl.before[f] = "old"
  /\ Len(dl.tried) = 3 /\ dl.G = "all_private"
  /\ \A f \in Files : dl.files[f] = "all_private"

=============================================================================
